---- MODULE Spec2Model ----
(***************************************************************************)
(* A model of the Homebrew IPSC endpoint of go-dmr (homebrew/homebrew.go): *)
(* the peer registry, the per-peer authentication and liveness state       *)
(* machine, the listener loop, the keepalive ticker and the send paths.    *)
(*                                                                         *)
(* Time is counted in seconds, the period of the keepalive ticker.  A      *)
(* timestamp is kept as its age (now - stamp), saturating one past the     *)
(* longest duration it is ever compared with; the zero time.Time is the    *)
(* saturated age.  A datagram is a record: its verb (the ASCII tag, byte   *)
(* by byte), its total length, the 4 bytes that follow the verb (id), the  *)
(* key-challenge token of an RPTK, and byte 15 and the destination id of a *)
(* DMRD frame.                                                             *)
(***************************************************************************)
EXTENDS Integers, Sequences, FiniteSets, TLC

VARIABLES
    Peer,       \* h.Peer: address -> peer object (Nil: no entry)
    PeerID,     \* h.PeerID: repeater id -> peer object (Nil: no entry)
    heap,       \* the peer objects, by handle
    closed,     \* h.closed
    connOpen,   \* h.conn has not been closed
    stop,       \* h.stop: "nil", or the channel "open" / "closed"
    keepaliveRunning, \* the keepalive goroutine is alive
    stopCh,     \* the keepalive goroutine's own stop channel: "open" / "closed"
    listener,   \* where ListenAndServe is
    pf,         \* h.pf is set
    out,        \* the datagrams written by the last operation, in order
    call,       \* a call of one of the codecs: its function, argument, result
    mutex,      \* h.mutex: "free", or the task that holds it
    rxtx,       \* h.rxtx: "free", or the task that holds it
    pc,         \* task -> where it is in its operation, and its locals
    wire        \* the writes made inside the rxtx sections, in order

vars == <<Peer, PeerID, heap, closed, connOpen, stop, keepaliveRunning, stopCh,
          listener, pf, out, call, mutex, rxtx, pc, wire>>

(***************************************************************************)
(* Bounds of the model.                                                    *)
(***************************************************************************)
\* Peer objects alive at once.
MaxPeers == 2
\* Nonces the random source may draw.
MaxNonce == 2

\* Repeater ids of remote peers.
Ids == {1, 2}
\* Talk groups carried by DMRD frames.
TGs == {1, 2}

Nil == 0
Nonces == 1..MaxNonce
RandFail == 0 - 1

(***************************************************************************)
(* Program constants.                                                      *)
(***************************************************************************)
AuthNone == 0
AuthBegin == 1
AuthDone == 2
AuthFailed == 3

AuthTimeout == 15
PingInterval == 5
PingTimeout == 15

\* config.ID of the endpoint (h.id is its packed form): the letter 'A' as the
\* low byte, so that a case-folded variant exists.
ConfigID == 65
\* The same bytes with the letter in lower case.
ConfigIDLower == 97
\* The 4-byte values a datagram may carry after its verb.
Words == Ids \cup {ConfigID, ConfigIDLower}

DefaultAuthKey == "passw0rd"
\* The auth keys the host links a peer with.
LinkKeys == {DefaultAuthKey}
\* The keys a remote end may have derived a token with.
Keys == LinkKeys \cup {"wr0ng"}
DefaultTGID == 446

DMRData == <<"D", "M", "R", "D">>
MasterNAK == <<"M", "S", "T", "N", "A", "K">>
MasterACK == <<"M", "S", "T", "A", "C", "K">>
RepeaterACK == <<"R", "P", "T", "A", "C", "K">>
RepeaterLogin == <<"R", "P", "T", "L">>
RepeaterKey == <<"R", "P", "T", "K">>
RepeaterConfig == <<"R", "P", "T", "C">>
MasterPing == <<"M", "S", "T", "P", "I", "N", "G">>
MasterPong == <<"M", "S", "T", "P", "O", "N", "G">>
RepeaterPing == <<"R", "P", "T", "P", "I", "N", "G">>
RepeaterPong == <<"R", "P", "T", "P", "O", "N", "G">>
MasterClosing == <<"M", "S", "T", "C", "L">>
RepeaterClosing == <<"R", "P", "T", "C", "L">>

\* Wire lengths.
DataLen == 55
ConfigLen == 302
KeyLen == 40
MinLen == 8
AckLen == 10
PingLen == 11
TokenLen == 32

CallTypePrivate == 0
CallTypeGroup == 1

(***************************************************************************)
(* Datagrams.                                                              *)
(***************************************************************************)
NoToken == <<>>

Dg(verb, len, id, tok, b15, dst) ==
    [verb |-> verb, len |-> len, id |-> id, tok |-> tok, b15 |-> b15, dst |-> dst]

\* bytes.Equal(data[:n], tag), for a datagram that holds its whole verb.
HasPrefix(data, n, tag) ==
    /\ Len(data.verb) >= n
    /\ SubSeq(data.verb, 1, n) = tag

\* append(tag, id...)
Frame(tag, id) == Dg(tag, Len(tag) + 4, id, NoToken, 0, 0)

\* bytes.EqualFold on a 4-byte id: ASCII letters compare without case.
FoldByte(b) == IF b \in 97..122 THEN b - 32 ELSE b

checkRepeaterID(id) == FoldByte(id % 256) = FoldByte(ConfigID % 256)
                       /\ id \div 256 = ConfigID \div 256

\* Peer.CheckRepeaterID: the id is the peer's own.
CheckRepeaterID(p, id) == FoldByte(id % 256) = FoldByte(p.ID % 256)
                          /\ id \div 256 = p.ID \div 256

\* Peer.UpdateToken: deterministic material from (authKey, nonce).
UpdateToken(p, nonce) == [p EXCEPT !.Token = <<p.AuthKey, nonce>>]

(***************************************************************************)
(* Timestamps as saturating ages.                                          *)
(***************************************************************************)
\* One past the longest duration each stamp is compared with; the stamps the
\* code never reads are only fresh (0) or not (1).
AgeCap == [LastPacketSent |-> 1, LastPacketReceived |-> AuthTimeout + 1,
           LastPingSent |-> PingInterval + 1, LastPingReceived |-> 1,
           LastPongReceived |-> PingTimeout + 1, LastAuthSent |-> AuthTimeout + 1,
           LastTGSubscribed |-> 1]

\* keepalive compares no stamp of an incoming peer: their ages are not tracked.
CapOf(incoming, f) == IF incoming THEN 0 ELSE AgeCap[f]

Stamps == DOMAIN AgeCap

\* time.Now()
Now == 0

\* time.Time{}
ZeroTime(incoming, f) == CapOf(incoming, f)

\* The stamps keepalive may compare before they are set again: PacketReceived
\* while the login runs (handleAuth sets it on every way into None), PingSent
\* and PongReceived while Done (set on the way into Done), AuthSent always.
Live(p, f) ==
    CASE f = "LastPacketReceived" -> p.Status \in {AuthNone, AuthBegin}
      [] f \in {"LastPingSent", "LastPongReceived"} -> p.Status = AuthDone
      [] OTHER -> TRUE

\* One second later: a live stamp is a second older, up to its cap; any other
\* is only fresh or old.
Older(p) ==
    [f \in DOMAIN p |-> IF f \in Stamps
                        THEN (IF Live(p, f) /\ p[f] < CapOf(p.Incoming, f)
                              THEN p[f] + 1 ELSE CapOf(p.Incoming, f))
                        ELSE p[f]]

(***************************************************************************)
(* Peer objects.                                                           *)
(***************************************************************************)
NewPeer(id, addr, incoming, key, unlinkOnAuthFailure, tgid, cb) ==
    [ID |-> id, Addr |-> addr, Incoming |-> incoming, AuthKey |-> key,
     Status |-> AuthNone, Token |-> NoToken, TGID |-> tgid,
     UnlinkOnAuthFailure |-> unlinkOnAuthFailure, HasConfig |-> FALSE,
     HasPacketReceived |-> cb,
     LastPacketSent |-> ZeroTime(incoming, "LastPacketSent"),
     LastPacketReceived |-> ZeroTime(incoming, "LastPacketReceived"),
     LastPingSent |-> ZeroTime(incoming, "LastPingSent"),
     LastPingReceived |-> ZeroTime(incoming, "LastPingReceived"),
     LastPongReceived |-> ZeroTime(incoming, "LastPongReceived"),
     LastAuthSent |-> ZeroTime(incoming, "LastAuthSent"),
     LastTGSubscribed |-> ZeroTime(incoming, "LastTGSubscribed")]

\* A handle that holds no object.
NoPeer == NewPeer(0, "", FALSE, "", FALSE, 0, FALSE)

\* The registry and the objects, and the writes made so far by the running
\* operation: what the operations below transform.
World(byAddr, byId, objs, sent) ==
    [Peer |-> byAddr, PeerID |-> byId, heap |-> objs, out |-> sent]

Ret(w, err) == [w |-> w, err |-> err]

Referenced(w, h) ==
    \/ \E a \in DOMAIN w.Peer : w.Peer[a] = h
    \/ \E i \in Words : w.PeerID[i] = h

\* An object no index holds any more is garbage.
Collect(w) ==
    [w EXCEPT !.heap = [h \in DOMAIN w.heap |-> IF Referenced(w, h) THEN w.heap[h] ELSE NoPeer]]

FreeHandles(w) == {h \in DOMAIN w.heap : ~Referenced(w, h)}

FirstFree(w) == CHOOSE h \in FreeHandles(w) : \A g \in FreeHandles(w) : h <= g

(***************************************************************************)
(* Writes.                                                                 *)
(***************************************************************************)
\* WriteToPeer: stamps PacketSent, then writes; the write fails when the
\* socket is closed.
WriteToPeer(w, b, h) ==
    IF h = Nil THEN Ret(w, "nilpeer")
    ELSE LET w1 == [w EXCEPT !.heap[h].LastPacketSent = Now]
         IN IF connOpen
            THEN Ret([w1 EXCEPT !.out = Append(@, [to |-> w.heap[h].Addr, dg |-> b])], "nil")
            ELSE Ret(w1, "closed")

\* buildConfigData: always a frame of 302 bytes that starts with RPTC and the
\* endpoint's id.
buildConfigData == Dg(RepeaterConfig, ConfigLen, ConfigID, NoToken, 0, 0)

\* handleAuth: the next step of the outgoing login.
handleAuth(w, h) ==
    IF ~w.heap[h].Incoming
    THEN LET w1 == [w EXCEPT !.heap[h].LastPacketReceived = Now]
         IN CASE w1.heap[h].Status = AuthNone ->
                   WriteToPeer([w1 EXCEPT !.heap[h].LastAuthSent = Now],
                               Frame(RepeaterLogin, ConfigID), h)
              [] w1.heap[h].Status = AuthBegin ->
                   WriteToPeer(w1,
                               Dg(RepeaterKey, 8 + (IF w1.heap[h].Token = NoToken THEN 0 ELSE TokenLen),
                                  ConfigID, w1.heap[h].Token, 0, 0), h)
              [] OTHER -> Ret(w1, "nil")
    ELSE Ret(w, "nil")

(***************************************************************************)
(* Registry.                                                               *)
(***************************************************************************)
\* Link, after its argument checks and under the mutex: reset the stamps,
\* register under the address and under the id.
Register(w, h, p) ==
    LET q == [p EXCEPT !.LastPacketSent = ZeroTime(p.Incoming, "LastPacketSent"),
                       !.LastPacketReceived = ZeroTime(p.Incoming, "LastPacketReceived"),
                       !.LastPingSent = ZeroTime(p.Incoming, "LastPingSent"),
                       !.LastPongReceived = ZeroTime(p.Incoming, "LastPongReceived")]
    IN [w EXCEPT !.heap[h] = q, !.Peer[p.Addr] = h, !.PeerID[p.ID] = h]

\* Link: register, then the login of an outgoing peer.
Link(w, h, p) ==
    LET w1 == Register(w, h, p)
    IN IF p.Incoming THEN Ret(w1, "nil") ELSE handleAuth(w1, h)

\* Unlink: remove the peer registered under the id from both indexes.
Unlink(w, id) ==
    IF w.PeerID[id] = Nil THEN Ret(w, "notlinked")
    ELSE LET peer == w.heap[w.PeerID[id]]
         IN Ret([w EXCEPT !.Peer[peer.Addr] = Nil, !.PeerID[id] = Nil], "nil")

getPeers(w) == {w.Peer[a] : a \in DOMAIN w.Peer} \ {Nil}

\* The orders in which a range over a map may visit the peers.
Orders(S) == {s \in [1..Cardinality(S) -> S] : \A i, j \in 1..Cardinality(S) : s[i] = s[j] => i = j}

(***************************************************************************)
(* DMR data frames.                                                        *)
(***************************************************************************)
VoiceBurstA == 10
VoiceBurstF == 15

Packet(ts, ct, dst, dt) == [Timeslot |-> ts, CallType |-> ct, DstID |-> dst, DataType |-> dt]

\* a | b on 8-bit values.
RECURSIVE Or8(_, _)
Or8(a, b) ==
    IF a = 0 THEN b
    ELSE IF b = 0 THEN a
    ELSE (IF a % 2 = 1 \/ b % 2 = 1 THEN 1 ELSE 0) + 2 * Or8(a \div 2, b \div 2)

\* buildData, byte 15: the timeslot and the call type, then the frame kind and
\* the data type, or-ed in whole for what is not a voice burst.
byte15(p) ==
    LET base == ((p.Timeslot % 2) * 128) + ((p.CallType % 2) * 64)
    IN CASE p.DataType \in (VoiceBurstA + 1)..VoiceBurstF ->
              Or8(base, p.DataType - VoiceBurstA)
         [] p.DataType = VoiceBurstA -> Or8(base, 16)
         [] OTHER -> Or8(Or8(base, 32), p.DataType % 256)

\* buildData, as the state machine sees the frame: its length, byte 15 and
\* the destination.
buildData(p) == Dg(DMRData, DataLen, ConfigID, NoToken, byte15(p), p.DstID)

FrameKind(b15) == (b15 \div 16) % 4

\* A parseDataType that takes only frame kind 0b00 for voice.
parseDataTypeKindZero(b15) ==
    IF FrameKind(b15) = 0 THEN VoiceBurstA + (b15 % 16) ELSE b15 % 16

\* parseData, the data type of a frame whose kind is not 0b11.
parseDataType(b15) ==
    IF FrameKind(b15) = 2 THEN b15 % 16 ELSE VoiceBurstA + (b15 % 16)

\* parseData: "len" for a frame that is not 55 bytes, "kind" for frame kind
\* 0b11, else the packet.
parseData(data) ==
    IF data.len # DataLen THEN [err |-> "len", p |-> Packet(0, 0, 0, 0)]
    ELSE IF FrameKind(data.b15) = 3 THEN [err |-> "kind", p |-> Packet(0, 0, 0, 0)]
    ELSE [err |-> "nil",
          p |-> Packet((data.b15 \div 128) % 2, (data.b15 \div 64) % 2, data.dst,
                       parseDataType(data.b15))]

(***************************************************************************)
(* DMR data frames, byte by byte.                                          *)
(***************************************************************************)
\* The bytes of "DMRD".
DMRDataBytes == <<68, 77, 82, 68>>

\* uint8(x >> (8 * k))
ByteOf(x, k) == (x \div (256 ^ k)) % 256

\* data[i], with Go's index.
At(data, i) == data[i + 1]

\* b2 << 16 | b1 << 8 | b0
Word24(b2, b1, b0) == ((b2 * 256) + b1) * 256 + b0

\* A uint32 as its four bytes, the most significant first:
\* b3 << 24 | b2 << 16 | b1 << 8 | b0, and uint8(x >> (8 * k)).
Word(b3, b2, b1, b0) == <<b3, b2, b1, b0>>
ByteOfWord(x, k) == x[4 - k]

\* Payload bytes of a frame.
PayloadLen == 33

\* dmr.Packet
FullPacket(seq, src, dst, rid, ts, ct, stream, dt, ber, rssi, payload) ==
    [Sequence |-> seq, SrcID |-> src, DstID |-> dst, RepeaterID |-> rid,
     Timeslot |-> ts, CallType |-> ct, StreamID |-> stream, DataType |-> dt,
     BER |-> ber, RSSI |-> rssi, Data |-> payload]

\* buildData: the 55 bytes.
buildDataBytes(p, repeaterID) ==
    [i \in 1..DataLen |->
        LET k == i - 1
        IN CASE k < 4 -> DMRDataBytes[i]
             [] k = 4 -> p.Sequence % 256
             [] k \in 5..7 -> ByteOf(p.SrcID, 7 - k)
             [] k \in 8..10 -> ByteOf(p.DstID, 10 - k)
             [] k \in 11..14 -> ByteOfWord(repeaterID, 14 - k)
             [] k = 15 -> byte15(p)
             [] k \in 16..19 -> ByteOfWord(p.StreamID, 19 - k)
             [] k \in 20..52 -> (IF k - 19 <= Len(p.Data) THEN p.Data[k - 19] ELSE 0)
             [] k = 53 -> p.BER % 256
             [] OTHER -> p.RSSI % 256]

NoPacket ==
    FullPacket(0, 0, 0, Word(0, 0, 0, 0), 0, 0, Word(0, 0, 0, 0), 0, 0, 0, <<>>)

\* parseData on the bytes.
parseDataBytes(data) ==
    IF Len(data) # DataLen THEN [err |-> "len", p |-> NoPacket]
    ELSE IF FrameKind(At(data, 15)) = 3 THEN [err |-> "kind", p |-> NoPacket]
    ELSE [err |-> "nil",
          p |-> FullPacket(At(data, 4),
                           Word24(At(data, 5), At(data, 6), At(data, 7)),
                           Word24(At(data, 8), At(data, 9), At(data, 10)),
                           Word(At(data, 11), At(data, 12), At(data, 13), At(data, 14)),
                           (At(data, 15) \div 128) % 2,
                           (At(data, 15) \div 64) % 2,
                           Word(At(data, 16), At(data, 17), At(data, 18), At(data, 19)),
                           parseDataType(At(data, 15)),
                           At(data, 53), At(data, 54),
                           [j \in 1..PayloadLen |-> At(data, 19 + j)])]

(***************************************************************************)
(* Send paths.                                                             *)
(***************************************************************************)
\* The loop of Send: write to every peer, stop at the first failed write.
RECURSIVE SendLoop(_, _, _, _)
SendLoop(w, data, order, i) ==
    IF i > Len(order) THEN Ret(w, "nil")
    ELSE LET r == WriteToPeer(w, data, order[i])
         IN IF r.err # "nil" THEN r ELSE SendLoop(r.w, data, order, i + 1)

Send(w, p, order) == SendLoop(w, buildData(p), order, 1)

\* The loop of SendTG: skip the peers with the origin's id, write to those
\* subscribed to the packet's destination, stop at the first failed write.
RECURSIVE SendTGLoop(_, _, _, _, _, _)
SendTGLoop(w, data, p, peer, order, i) ==
    IF i > Len(order) THEN Ret(w, "nil")
    ELSE LET toPeer == order[i]
         IN IF w.heap[toPeer].ID = w.heap[peer].ID
            THEN SendTGLoop(w, data, p, peer, order, i + 1)
            ELSE IF w.heap[toPeer].TGID = p.DstID
                 THEN LET r == WriteToPeer(w, data, toPeer)
                      IN IF r.err # "nil" THEN r
                         ELSE SendTGLoop(r.w, data, p, peer, order, i + 1)
                 ELSE SendTGLoop(w, data, p, peer, order, i + 1)

SendTG(w, p, peer, order) == SendTGLoop(w, buildData(p), p, peer, order, 1)

\* handlePacket: a per-peer callback, else the endpoint's callback, else the
\* built-in relay of group calls.  cb is what the callback returns.
handlePacket(w, p, peer, cb, order) ==
    IF w.heap[peer].HasPacketReceived THEN Ret(w, cb)
    ELSE IF ~pf
         THEN IF p.CallType = CallTypeGroup
              THEN SendTG([w EXCEPT !.heap[peer].TGID = p.DstID,
                                     !.heap[peer].LastTGSubscribed = Now],
                          p, peer, order)
              ELSE Ret(w, "nil")
         ELSE Ret(w, cb)

(***************************************************************************)
(* The datagram handler.                                                   *)
(***************************************************************************)
\* handle, incoming peer, status None.
handleIncomingNone(w, peer, data, rnd) ==
    IF HasPrefix(data, 4, RepeaterLogin)
    THEN IF rnd = RandFail
         THEN WriteToPeer(w, Frame(MasterNAK, ConfigID), peer)
         ELSE WriteToPeer([w EXCEPT !.heap[peer] =
                              [UpdateToken(@, rnd) EXCEPT !.Status = AuthBegin]],
                          Frame(RepeaterACK, rnd), peer)
    ELSE Ret(w, "nil")

\* handleIncomingBegin as it would be if it took the length of the token for
\* the length of the key frame.
handleIncomingBeginTokenLen(w, peer, data) ==
    IF HasPrefix(data, 4, RepeaterKey)
    THEN IF data.len # TokenLen \/ data.tok # w.heap[peer].Token
         THEN WriteToPeer([w EXCEPT !.heap[peer].Status = AuthNone],
                          Frame(MasterNAK, ConfigID), peer)
         ELSE WriteToPeer([w EXCEPT !.heap[peer].Status = AuthDone,
                                    !.heap[peer].LastPingReceived = Now,
                                    !.heap[peer].LastPongReceived = Now],
                          Frame(RepeaterACK, ConfigID), peer)
    ELSE Ret(w, "nil")

\* handleIncomingBegin as it would be if it did not compare the token.
handleIncomingBeginAnyToken(w, peer, data) ==
    IF HasPrefix(data, 4, RepeaterKey)
    THEN IF data.len # KeyLen
         THEN WriteToPeer([w EXCEPT !.heap[peer].Status = AuthNone],
                          Frame(MasterNAK, ConfigID), peer)
         ELSE WriteToPeer([w EXCEPT !.heap[peer].Status = AuthDone,
                                    !.heap[peer].LastPingReceived = Now,
                                    !.heap[peer].LastPongReceived = Now],
                          Frame(RepeaterACK, ConfigID), peer)
    ELSE Ret(w, "nil")

\* handle, incoming peer, status Begin.
handleIncomingBegin(w, peer, data) ==
    IF HasPrefix(data, 4, RepeaterKey)
    THEN IF data.len # KeyLen
         THEN WriteToPeer([w EXCEPT !.heap[peer].Status = AuthNone],
                          Frame(MasterNAK, ConfigID), peer)
         ELSE IF data.tok # w.heap[peer].Token
         THEN WriteToPeer([w EXCEPT !.heap[peer].Status = AuthNone],
                          Frame(MasterNAK, ConfigID), peer)
         ELSE WriteToPeer([w EXCEPT !.heap[peer].Status = AuthDone,
                                    !.heap[peer].LastPingReceived = Now,
                                    !.heap[peer].LastPongReceived = Now],
                          Frame(RepeaterACK, ConfigID), peer)
    ELSE Ret(w, "nil")

\* The peer refused the login: Failed, and unlinked if the peer asks for it.
refused(w, peer) ==
    LET w1 == [w EXCEPT !.heap[peer].Status = AuthFailed]
    IN IF w1.heap[peer].UnlinkOnAuthFailure
       THEN Ret(Unlink(w1, w1.heap[peer].ID).w, "nil")
       ELSE Ret(w1, "nil")

\* handle, outgoing peer, status None.
handleOutgoingNone(w, peer, data) ==
    CASE HasPrefix(data, 6, RepeaterACK) ->
           handleAuth([w EXCEPT !.heap[peer] =
                          UpdateToken([@ EXCEPT !.Status = AuthBegin], data.id)], peer)
      [] HasPrefix(data, 6, MasterNAK) -> refused(w, peer)
      [] OTHER -> Ret(w, "nil")

\* The master accepted the login: Done, ping timers stamped, config sent.
accepted(w, peer) ==
    WriteToPeer([w EXCEPT !.heap[peer].Status = AuthDone,
                          !.heap[peer].LastPingSent = Now,
                          !.heap[peer].LastPongReceived = Now],
                buildConfigData, peer)

\* handleOutgoingBegin as it would be if it took only MSTACK for an accepted
\* login.
handleOutgoingBeginMasterOnly(w, peer, data) ==
    CASE HasPrefix(data, 6, MasterACK) -> accepted(w, peer)
      [] HasPrefix(data, 6, MasterNAK) -> refused(w, peer)
      [] OTHER -> Ret(w, "nil")

\* handle, outgoing peer, status Begin.
handleOutgoingBegin(w, peer, data) ==
    CASE HasPrefix(data, 6, MasterACK) -> accepted(w, peer)
      [] HasPrefix(data, 6, MasterNAK) -> refused(w, peer)
      [] HasPrefix(data, 6, RepeaterACK) -> accepted(w, peer)
      [] OTHER -> Ret(w, "nil")

\* handle, incoming peer, status Done.
handleIncomingDone(w, peer, data, cb, order) ==
    CASE HasPrefix(data, 4, DMRData) ->
           LET r == parseData(data)
           IN IF r.err # "nil" THEN Ret(w, r.err)
              ELSE handlePacket(w, r.p, peer, cb, order)
      [] data.len = AckLen /\ HasPrefix(data, 6, MasterACK) -> Ret(w, "nil")
      [] data.len = PingLen /\ HasPrefix(data, 7, MasterPing) ->
           WriteToPeer([w EXCEPT !.heap[peer].LastPingReceived = Now],
                       Dg(RepeaterPong, data.len, data.id, NoToken, 0, 0), peer)
      [] data.len = PingLen /\ HasPrefix(data, 7, RepeaterPing) ->
           WriteToPeer([w EXCEPT !.heap[peer].LastPingReceived = Now],
                       Dg(MasterPong, data.len, data.id, NoToken, 0, 0), peer)
      [] HasPrefix(data, 4, RepeaterConfig) ->
           \* parseConfigData returns nil for a frame that is not 302 bytes, and
           \* printConfig dereferences it.
           IF data.len # ConfigLen
           THEN Ret([w EXCEPT !.heap[peer].HasConfig = FALSE], "panic")
           ELSE WriteToPeer([w EXCEPT !.heap[peer].HasConfig = TRUE],
                            Frame(RepeaterACK, ConfigID), peer)
      [] OTHER -> Ret(w, "nil")

\* handle, outgoing peer, status Done.
handleOutgoingDone(w, peer, data, cb, order) ==
    CASE HasPrefix(data, 4, DMRData) ->
           LET r == parseData(data)
           IN IF r.err # "nil" THEN Ret(w, r.err)
              ELSE handlePacket(w, r.p, peer, cb, order)
      [] data.len = AckLen /\ (HasPrefix(data, 6, MasterACK) \/ HasPrefix(data, 6, RepeaterACK)) ->
           IF ~checkRepeaterID(data.id) THEN Ret(w, "nil")
           ELSE WriteToPeer([w EXCEPT !.heap[peer].LastPingSent = Now],
                            Frame(MasterPing, ConfigID), peer)
      [] data.len = AckLen /\ HasPrefix(data, 6, MasterNAK) ->
           IF ~checkRepeaterID(data.id) THEN Ret(w, "nil")
           ELSE handleAuth([w EXCEPT !.heap[peer].Status = AuthFailed], peer)
      [] data.len = PingLen /\ (HasPrefix(data, 7, MasterPong) \/ HasPrefix(data, 7, RepeaterPong)) ->
           IF ~checkRepeaterID(data.id) THEN Ret(w, "nil")
           ELSE Ret([w EXCEPT !.heap[peer].LastPongReceived = Now], "nil")
      [] OTHER -> Ret(w, "nil")

\* handle, once the peer is known and the datagram has at least 8 bytes.
dispatch(w, peer, data, rnd, cb, order) ==
    LET p == w.heap[peer]
    IN IF p.Status # AuthDone
       THEN IF HasPrefix(data, 4, DMRData) THEN Ret(w, "nil")
            ELSE IF p.Incoming
            THEN CASE p.Status = AuthNone -> handleIncomingNone(w, peer, data, rnd)
                   [] p.Status = AuthBegin -> handleIncomingBegin(w, peer, data)
                   [] OTHER -> Ret(w, "nil")
            ELSE CASE p.Status = AuthNone -> handleOutgoingNone(w, peer, data)
                   [] p.Status = AuthBegin -> handleOutgoingBegin(w, peer, data)
                   [] OTHER -> Ret(w, "nil")
       ELSE IF p.Incoming
            THEN handleIncomingDone(w, peer, data, cb, order)
            ELSE handleOutgoingDone(w, peer, data, cb, order)

\* handle: look the sender up, create a peer for an unknown sender of RPTL,
\* drop what is shorter than 8 bytes, stamp PacketReceived, dispatch.
handle(w, remote, data, rnd, cb, order) ==
    IF w.Peer[remote] = Nil /\ ~HasPrefix(data, 4, RepeaterLogin) THEN Ret(w, "nil")
    \* unpackRepeaterID(data[4:]) indexes 4 bytes past the verb.
    ELSE IF w.Peer[remote] = Nil /\ data.len < MinLen THEN Ret(w, "panic")
    ELSE LET w1 == IF w.Peer[remote] # Nil THEN w
                   ELSE Link(w, FirstFree(w),
                             NewPeer(data.id, remote, TRUE, DefaultAuthKey, FALSE,
                                     DefaultTGID, FALSE)).w
             peer == w1.Peer[remote]
         IN IF data.len < MinLen THEN Ret(w1, "nil")
            ELSE dispatch([w1 EXCEPT !.heap[peer].LastPacketReceived = Now],
                          peer, data, rnd, cb, order)

(***************************************************************************)
(* Keepalive.                                                              *)
(***************************************************************************)
\* The writes of keepalive log their error and go on.
logged(r) == r.w

\* keepaliveDone as it would be if it looked at the ping interval first.
keepaliveDonePingFirst(w, peer) ==
    CASE w.heap[peer].LastPingSent > PingInterval ->
           logged(WriteToPeer([w EXCEPT !.heap[peer].LastPingSent = Now],
                              Frame(RepeaterPing, ConfigID), peer))
      [] w.heap[peer].LastPongReceived > PingTimeout ->
           LET w1 == logged(WriteToPeer([w EXCEPT !.heap[peer].Status = AuthNone],
                                        Frame(RepeaterClosing, ConfigID), peer))
           IN logged(handleAuth(w1, peer))
      [] OTHER -> w

\* keepalive, the Done branch: past PingTimeout without a pong, close and log in
\* again; else past PingInterval since the last ping, ping.
keepaliveDone(w, peer) ==
    CASE w.heap[peer].LastPongReceived > PingTimeout ->
           LET w1 == logged(WriteToPeer([w EXCEPT !.heap[peer].Status = AuthNone],
                                        Frame(RepeaterClosing, ConfigID), peer))
           IN logged(handleAuth(w1, peer))
      [] w.heap[peer].LastPingSent > PingInterval ->
           logged(WriteToPeer([w EXCEPT !.heap[peer].LastPingSent = Now],
                              Frame(RepeaterPing, ConfigID), peer))
      [] OTHER -> w

\* keepaliveFailed as it would be if it reset the status and sent no login.
keepaliveFailedNoLogin(w, peer) ==
    IF w.heap[peer].LastAuthSent > AuthTimeout
    THEN [w EXCEPT !.heap[peer].Status = AuthNone]
    ELSE w

\* keepalive, the Failed branch: past AuthTimeout since the login was sent,
\* back to None and log in again.
keepaliveFailed(w, peer) ==
    IF w.heap[peer].LastAuthSent > AuthTimeout
    THEN logged(handleAuth([w EXCEPT !.heap[peer].Status = AuthNone], peer))
    ELSE w

\* keepalive, the None and Begin branch: past AuthTimeout without a packet,
\* Failed.
keepaliveNoneBegin(w, peer) ==
    IF w.heap[peer].LastPacketReceived > AuthTimeout
    THEN [w EXCEPT !.heap[peer].Status = AuthFailed]
    ELSE w

\* keepalive, one peer of the scan.
keepalivePeer(w, peer) ==
    IF w.heap[peer].Incoming THEN w
    ELSE CASE w.heap[peer].Status = AuthFailed -> keepaliveFailed(w, peer)
           [] w.heap[peer].Status \in {AuthNone, AuthBegin} -> keepaliveNoneBegin(w, peer)
           [] w.heap[peer].Status = AuthDone -> keepaliveDone(w, peer)
           [] OTHER -> w

\* keepalive, one tick: the scan over getPeers().
RECURSIVE keepaliveScan(_, _, _)
keepaliveScan(w, order, i) ==
    IF i > Len(order) THEN w
    ELSE keepaliveScan(keepalivePeer(w, order[i]), order, i + 1)

\* One second passes for every stamp.
Elapse(w) == [w EXCEPT !.heap = [h \in DOMAIN w.heap |-> IF Referenced(w, h) THEN Older(w.heap[h]) ELSE w.heap[h]]]

(***************************************************************************)
(* Close.                                                                  *)
(***************************************************************************)
\* The loop of Close: RPTCL to every Done peer, stop at the first failed write.
RECURSIVE closeLoop(_, _, _)
closeLoop(w, order, i) ==
    IF i > Len(order) THEN w
    ELSE IF w.heap[order[i]].Status = AuthDone
         THEN LET r == WriteToPeer(w, Frame(RepeaterClosing, ConfigID), order[i])
              IN IF r.err # "nil" THEN r.w ELSE closeLoop(r.w, order, i + 1)
         ELSE closeLoop(w, order, i + 1)

\* Active
Active == ~closed

(***************************************************************************)
(* The state machine.                                                      *)
(***************************************************************************)
Cur == World(Peer, PeerID, heap, <<>>)

\* The process has not crashed.
Alive == listener # "panic"

\* The registry, the objects and the writes after an operation.
Commit(w) ==
    /\ Peer' = w.Peer
    /\ PeerID' = w.PeerID
    /\ heap' = Collect(w).heap
    /\ out' = w.out
    /\ UNCHANGED <<call, mutex, rxtx, pc, wire>>

\* No codec is being called.
NoCall == [fn |-> "none"]

\* The endpoint after New, with an empty registry, for a deployment with the
\* remote addresses addrs and at most n peer objects alive at once.
Constructed(addrs, n) ==
    /\ Peer = [a \in addrs |-> Nil]
    /\ PeerID = [i \in Words |-> Nil]
    /\ heap = [h \in 1..n |-> NoPeer]
    /\ closed = FALSE
    /\ connOpen = TRUE
    /\ stop = "nil"
    /\ keepaliveRunning = FALSE
    /\ stopCh = "open"
    /\ listener = "idle"
    /\ pf = FALSE
    /\ out = <<>>

\* The tasks that run operations of the endpoint step by step: two callers
\* of Send, the listener, the host that links, the caller of Close and the
\* keepalive goroutine.
Senders == {"send1", "send2"}
Tasks == Senders \cup {"listener", "host", "closer", "keepalive"}

\* A task at the label at, with the peers it has still to visit, the id of
\* its operation and the operation's argument.
Task(at, todo, op, arg) == [at |-> at, todo |-> todo, op |-> op, arg |-> arg]
Idle == Task("idle", <<>>, <<>>, <<>>)

\* No operation is under way: both mutexes as New makes them.
Quiet ==
    /\ mutex = "free"
    /\ rxtx = "free"
    /\ pc = [t \in Tasks |-> Idle]
    /\ wire = <<>>

\* New
New(addrs, n) == Constructed(addrs, n) /\ call = NoCall /\ Quiet

\* Link(p) by the host, with a new peer object p.
LinkStep(p) ==
    /\ Alive
    /\ FreeHandles(Cur) # {}
    /\ Commit(Link(Cur, FirstFree(Cur), p).w)
    /\ UNCHANGED <<closed, connOpen, stop, keepaliveRunning, stopCh, listener, pf>>

DoLink(peers) == \E p \in peers : LinkStep(p)

\* Link(peer) with no address or no auth key: an error, nothing registered.
DoLinkInvalid ==
    /\ Alive
    /\ Commit(Cur)
    /\ UNCHANGED <<closed, connOpen, stop, keepaliveRunning, stopCh, listener, pf>>

\* Unlink(id) by the host.
UnlinkStep(id) ==
    /\ Alive
    /\ Commit(Unlink(Cur, id).w)
    /\ UNCHANGED <<closed, connOpen, stop, keepaliveRunning, stopCh, listener, pf>>

DoUnlink == \E i \in Ids : UnlinkStep(i)

\* SetPacketFunc by the host.
DoSetPacketFunc ==
    /\ Alive
    /\ pf' = ~pf
    /\ Commit(Cur)
    /\ UNCHANGED <<closed, connOpen, stop, keepaliveRunning, stopCh, listener>>

\* ListenAndServe is called: the keepalive goroutine starts, the loop reads.
DoListenAndServe ==
    /\ listener = "idle"
    /\ listener' = "read"
    /\ stop' = "open"
    /\ stopCh' = "open"
    /\ keepaliveRunning' = TRUE
    /\ closed' = FALSE
    /\ Commit(Cur)
    /\ UNCHANGED <<connOpen, pf>>

\* What ListenAndServe does with what handle returned.
afterHandle(err) ==
    CASE err = "panic" -> "panic"
      [] err = "nil" -> IF closed THEN "nil" ELSE "read"
      [] closed /\ err = "closed" -> "nil"
      [] OTHER -> "err"

\* The random source, for the datagrams that draw a nonce.
Rand(data) == IF HasPrefix(data, 4, RepeaterLogin) THEN Nonces \cup {RandFail} ELSE {RandFail}

\* What a packet callback may return, for the datagrams that may reach one.
Callback(remote, data) ==
    IF /\ HasPrefix(data, 4, DMRData)
       /\ Peer[remote] # Nil
       /\ pf \/ heap[Peer[remote]].HasPacketReceived
    THEN {"nil", "callback"} ELSE {"nil"}

\* The orders in which getPeers() may return the peers, for the datagrams that
\* may be relayed.
Ranges(data) == IF HasPrefix(data, 4, DMRData) THEN Orders(getPeers(Cur)) ELSE {<<>>}

\* The listener is in its loop and may have read the datagram data from remote.
Reading(remote, data) ==
    /\ listener = "read"
    /\ connOpen \/ closed
    /\ Peer[remote] = Nil /\ HasPrefix(data, 4, RepeaterLogin) /\ data.len >= MinLen
          => FreeHandles(Cur) # {}

\* The listener reads the datagram data from remote and handles it.  A
\* datagram read just before Close closed the socket is handled after it:
\* reading changes nothing, so this is the one interleaving of the read with
\* the other tasks that matters.
HandleStep(remote, data, rnd, cb, order) ==
    /\ Reading(remote, data)
    /\ LET r == handle(Cur, remote, data, rnd, cb, order)
       IN /\ Commit(r.w)
          /\ listener' = afterHandle(r.err)
    /\ UNCHANGED <<closed, connOpen, stop, keepaliveRunning, stopCh, pf>>

DoHandle(inbound) ==
    \E remote \in DOMAIN Peer, data \in inbound :
       \E rnd \in Rand(data), cb \in Callback(remote, data), order \in Ranges(data) :
          HandleStep(remote, data, rnd, cb, order)

\* ReadFromUDP fails on the closed socket: ListenAndServe returns the error.
DoReadError ==
    /\ listener = "read"
    /\ ~connOpen
    /\ listener' = "err"
    /\ Commit(Cur)
    /\ UNCHANGED <<closed, connOpen, stop, keepaliveRunning, stopCh, pf>>

\* The keepalive timer fires: a second has passed, the peers are scanned.
KeepaliveStep(order) ==
    /\ Alive
    /\ keepaliveRunning
    /\ Commit(keepaliveScan(Elapse(Cur), order, 1))
    /\ UNCHANGED <<closed, connOpen, stop, keepaliveRunning, stopCh, listener, pf>>

DoKeepalive == \E order \in Orders(getPeers(Cur)) : KeepaliveStep(order)

\* The keepalive goroutine sees its stop channel closed and returns.
DoKeepaliveStop ==
    /\ Alive
    /\ keepaliveRunning
    /\ stopCh = "closed"
    /\ keepaliveRunning' = FALSE
    /\ Commit(Cur)
    /\ UNCHANGED <<closed, connOpen, stop, stopCh, listener, pf>>

\* A second passes before ListenAndServe starts the keepalive goroutine.
DoTimePasses ==
    /\ Alive
    /\ listener = "idle"
    /\ Commit(Elapse(Cur))
    /\ UNCHANGED <<closed, connOpen, stop, keepaliveRunning, stopCh, listener, pf>>

\* Close by the host.
DoClose ==
    /\ Alive
    /\ IF ~Active
       THEN /\ Commit(Cur)
            /\ UNCHANGED <<closed, connOpen, stop, stopCh>>
       ELSE /\ \E order \in Orders(getPeers(Cur)) : Commit(closeLoop(Cur, order, 1))
            /\ stop' = "nil"
            /\ stopCh' = IF stop # "nil" THEN "closed" ELSE stopCh
            /\ closed' = TRUE
            /\ connOpen' = FALSE
    /\ UNCHANGED <<keepaliveRunning, listener, pf>>

\* Send(p) by the host.
SendStep(p, order) ==
    /\ Alive
    /\ Commit(Send(Cur, p, order).w)
    /\ UNCHANGED <<closed, connOpen, stop, keepaliveRunning, stopCh, listener, pf>>

DoSend(outbound) == \E p \in outbound, order \in Orders(getPeers(Cur)) : SendStep(p, order)

(***************************************************************************)
(* The endpoint as a master: repeaters log in from two addresses.          *)
(***************************************************************************)
RepeaterAddrs == {"a1", "a2"}

\* The peers the host links: incoming, with a key of its own.
LinkedRepeaters ==
    {NewPeer(i, a, TRUE, k, FALSE, DefaultTGID, FALSE) : i \in Ids, a \in RepeaterAddrs, k \in LinkKeys}

Tokens == {<<k, n>> : k \in Keys, n \in Nonces}

\* Byte 15 of the DMRD frames received: a group voice burst A, a private voice
\* burst A, and a frame of kind 0b11.
InB15 == {80, 16, 112}

\* The datagrams repeaters send.
FromRepeaters ==
    {Dg(RepeaterLogin, MinLen, i, NoToken, 0, 0) : i \in Ids}
    \cup {Dg(RepeaterLogin, 5, 0, NoToken, 0, 0)}
    \cup {Dg(RepeaterKey, KeyLen, i, t, 0, 0) : i \in Ids, t \in Tokens}
    \cup {Dg(RepeaterKey, 12, 1, NoToken, 0, 0), Dg(RepeaterKey, 6, 0, NoToken, 0, 0)}
    \cup {Frame(v, 1) : v \in {MasterPing, RepeaterPing, MasterACK}}
    \cup {Dg(DMRData, l, 1, NoToken, b, DefaultTGID) : l \in {DataLen, 53}, b \in InB15}

\* The packets the host sends.
Outbound == {Packet(0, CallTypeGroup, DefaultTGID, VoiceBurstA)}

Init == New(RepeaterAddrs, MaxPeers)

LinkRepeater == DoLink(LinkedRepeaters)

HandleRepeater == DoHandle(FromRepeaters)

SendPacket == DoSend(Outbound)

Next ==
    \/ LinkRepeater
    \/ DoLinkInvalid
    \/ DoUnlink
    \/ DoListenAndServe
    \/ HandleRepeater
    \/ DoReadError
    \/ DoKeepalive
    \/ DoKeepaliveStop
    \/ DoTimePasses
    \/ DoClose
    \/ SendPacket

Spec == Init /\ [][Next]_vars

(***************************************************************************)
(* Properties of the master role.  A property of the handler is stated of    *)
(* every state the listener can be reading in and every datagram it can     *)
(* read there: what handle() returns is what the next step commits.         *)
(***************************************************************************)
\* The peer object registered under an address.
IsPeer(a) == Peer[a] # Nil

PeerAt(w, a) == w.heap[w.Peer[a]]

Sent(a, b) == [to |-> a, dg |-> b]

\* handle() of an authentication datagram: no callback, no relay.
Handled(remote, data, rnd) == handle(Cur, remote, data, rnd, "nil", <<>>)

\* C1: a peer object is in the by-address index if and only if it is in the
\* by-id index.
RegistryBijection ==
    \A h \in DOMAIN heap :
       (\E a \in DOMAIN Peer : Peer[a] = h) <=> (\E i \in Words : PeerID[i] = h)

\* A login request of at least 8 bytes, at an incoming peer in None or at an
\* address with no peer, while the socket is open.
LoginAtNone(remote, data) ==
    /\ Reading(remote, data)
    /\ connOpen
    /\ HasPrefix(data, 4, RepeaterLogin)
    /\ data.len >= MinLen
    /\ IsPeer(remote) => PeerAt(Cur, remote).Incoming /\ PeerAt(Cur, remote).Status = AuthNone

\* A key frame at an incoming peer in Begin, while the socket is open.
KeyAtBegin(remote, data) ==
    /\ Reading(remote, data)
    /\ connOpen
    /\ HasPrefix(data, 4, RepeaterKey)
    /\ IsPeer(remote)
    /\ PeerAt(Cur, remote).Incoming
    /\ PeerAt(Cur, remote).Status = AuthBegin

\* The key frame carries the peer's token in 40 bytes.
GoodKey(remote, data) == data.len = KeyLen /\ data.tok = PeerAt(Cur, remote).Token

\* C2: at an incoming peer in None (or an address with no peer yet), RPTL of
\* at least 8 bytes is answered RPTACK with the nonce and moves the peer to
\* Begin; at an incoming peer in Begin, a 40-byte
\* RPTK with the peer's token is answered RPTACK with the endpoint's id and
\* moves the peer to Done.
AuthProgression ==
    \A remote \in DOMAIN Peer, data \in FromRepeaters :
       /\ LoginAtNone(remote, data) =>
             \A nonce \in Nonces :
                LET w == Handled(remote, data, nonce).w
                IN /\ w.Peer[remote] # Nil
                   /\ PeerAt(w, remote).Status = AuthBegin
                   /\ w.out = <<Sent(remote, Frame(RepeaterACK, nonce))>>
       /\ (KeyAtBegin(remote, data) /\ GoodKey(remote, data)) =>
             LET w == Handled(remote, data, RandFail).w
             IN /\ PeerAt(w, remote).Status = AuthDone
                /\ w.out = <<Sent(remote, Frame(RepeaterACK, ConfigID))>>

\* An incoming peer has just been told that its key is accepted.
AuthProgressionWitness ==
    \E a \in DOMAIN Peer :
       /\ IsPeer(a)
       /\ PeerAt(Cur, a).Incoming
       /\ PeerAt(Cur, a).Status = AuthDone
       /\ PeerAt(Cur, a).Token # NoToken
       /\ out = <<Sent(a, Frame(RepeaterACK, ConfigID))>>

\* C3 as claimed: at an incoming peer in Begin, every RPTK that is not 40 bytes
\* or whose token differs is answered MSTNAK and leaves the peer in None.
BadKeyAlwaysRefused ==
    \A remote \in DOMAIN Peer, data \in FromRepeaters :
       (KeyAtBegin(remote, data) /\ ~GoodKey(remote, data)) =>
          LET w == Handled(remote, data, RandFail).w
          IN /\ PeerAt(w, remote).Status = AuthNone
             /\ w.out = <<Sent(remote, Frame(MasterNAK, ConfigID))>>

\* C3: at an incoming peer in Begin, an RPTK of at least 8 bytes that is not
\* 40 bytes or whose token differs is answered MSTNAK and leaves the peer in
\* None; an RPTK shorter than 8 bytes is dropped, the peer staying in Begin;
\* neither moves the peer to Done.
BadKeyRefused ==
    \A remote \in DOMAIN Peer, data \in FromRepeaters :
       (KeyAtBegin(remote, data) /\ ~GoodKey(remote, data)) =>
          LET w == Handled(remote, data, RandFail).w
          IN /\ data.len >= MinLen =>
                   /\ PeerAt(w, remote).Status = AuthNone
                   /\ w.out = <<Sent(remote, Frame(MasterNAK, ConfigID))>>
             /\ data.len < MinLen =>
                   /\ PeerAt(w, remote).Status = AuthBegin
                   /\ w.out = <<>>
             /\ PeerAt(w, remote).Status # AuthDone

\* An incoming peer that holds a token has just been refused.
BadKeyRefusedWitness ==
    \E a \in DOMAIN Peer :
       /\ IsPeer(a)
       /\ PeerAt(Cur, a).Incoming
       /\ PeerAt(Cur, a).Status = AuthNone
       /\ PeerAt(Cur, a).Token # NoToken
       /\ out = <<Sent(a, Frame(MasterNAK, ConfigID))>>

\* A DMRD frame that parseData rejects, from a peer that is Done, while the
\* endpoint is not closed.
FramingError(remote, data) ==
    /\ Reading(remote, data)
    /\ ~closed
    /\ HasPrefix(data, 4, DMRData)
    /\ parseData(data).err # "nil"
    /\ IsPeer(remote)
    /\ PeerAt(Cur, remote).Status = AuthDone

\* C9: after a datagram that fails with a framing error the listener reads
\* the next datagram.
ListenerSurvivesFramingError ==
    \A remote \in DOMAIN Peer, data \in FromRepeaters :
       FramingError(remote, data) =>
          \A cb \in Callback(remote, data), order \in Ranges(data) :
             afterHandle(handle(Cur, remote, data, RandFail, cb, order).err) = "read"

\* C10: when Close was called while ListenAndServe was reading, ListenAndServe
\* returns nil on the read error of the closed socket.
CloseReturnsNil ==
    [][(DoReadError /\ closed) => listener' = "nil"]_vars

(***************************************************************************)
(* The endpoint as a repeater: it logs in to one master and keeps the link  *)
(* alive, its socket open.                                                 *)
(***************************************************************************)
MasterAddrs == {"m1"}

\* The peers the host links: outgoing.
LinkedMasters ==
    {NewPeer(1, "m1", FALSE, DefaultAuthKey, u, DefaultTGID, FALSE) : u \in BOOLEAN}

\* The datagrams the master sends: replies that carry a nonce or an id, pongs.
FromMaster ==
    {Frame(v, x) : v \in {RepeaterACK, MasterACK, MasterNAK}, x \in {1, ConfigID}}
    \cup {Frame(v, ConfigID) : v \in {MasterPong, RepeaterPong}}

InitRepeater == New(MasterAddrs, MaxPeers)

LinkMaster == DoLink(LinkedMasters)

HandleMaster == DoHandle(FromMaster)

NextRepeater ==
    \/ LinkMaster
    \/ DoListenAndServe
    \/ HandleMaster
    \/ DoKeepalive
    \/ DoTimePasses

SpecRepeater == InitRepeater /\ [][NextRepeater]_vars

(***************************************************************************)
(* Properties of the repeater role.                                        *)
(***************************************************************************)
\* A 10-byte reply with the verb, at an outgoing peer in the status.
ReplyAt(remote, data, status, verbs) ==
    /\ Reading(remote, data)
    /\ connOpen
    /\ data.len = AckLen
    /\ \E v \in verbs : HasPrefix(data, 6, v)
    /\ IsPeer(remote)
    /\ ~PeerAt(Cur, remote).Incoming
    /\ PeerAt(Cur, remote).Status = status

\* RPTK with the endpoint's id and the token.
KeyFrame(tok) == Dg(RepeaterKey, 8 + TokenLen, ConfigID, tok, 0, 0)

\* C4: at an outgoing peer in None, MSTACK with a nonce and RPTACK with a
\* nonce each store the token of the nonce, send RPTK with the id and the token
\* and move the peer to Begin.
NonceReplyAccepted ==
    \A remote \in DOMAIN Peer, data \in FromMaster :
       ReplyAt(remote, data, AuthNone, {MasterACK, RepeaterACK}) =>
          LET w == Handled(remote, data, RandFail).w
              tok == <<PeerAt(Cur, remote).AuthKey, data.id>>
          IN /\ PeerAt(w, remote).Status = AuthBegin
             /\ PeerAt(w, remote).Token = tok
             /\ w.out = <<Sent(remote, KeyFrame(tok))>>

\* C5: at an outgoing peer in Begin, MSTACK and RPTACK each move the peer to
\* Done and stamp PingSent and PongReceived, and the one datagram sent is the
\* 302-byte RPTC frame, to that peer.
LoginAccepted ==
    \A remote \in DOMAIN Peer, data \in FromMaster :
       ReplyAt(remote, data, AuthBegin, {MasterACK, RepeaterACK}) =>
          LET w == Handled(remote, data, RandFail).w
          IN /\ PeerAt(w, remote).Status = AuthDone
             /\ PeerAt(w, remote).LastPingSent = Now
             /\ PeerAt(w, remote).LastPongReceived = Now
             /\ Len(w.out) = 1
             /\ w.out[1].to = remote
             /\ HasPrefix(w.out[1].dg, 4, RepeaterConfig)
             /\ w.out[1].dg.len = ConfigLen

\* The outgoing peer has just been accepted.
LoginAcceptedWitness ==
    \E a \in DOMAIN Peer :
       /\ IsPeer(a)
       /\ ~PeerAt(Cur, a).Incoming
       /\ PeerAt(Cur, a).Status = AuthDone
       /\ PeerAt(Cur, a).LastPingSent = Now
       /\ PeerAt(Cur, a).LastPongReceived = Now
       /\ out = <<Sent(a, buildConfigData)>>

\* The keepalive timer may fire, the socket open.
Ticking == Alive /\ keepaliveRunning /\ connOpen

\* What one tick does, for an order of the scan.
Tick(order) == keepaliveScan(Elapse(Cur), order, 1)

\* The datagrams among sent that go to the address.
SentTo(sent, a) == SelectSeq(sent, LAMBDA m : m.to = a)

IsVerb(m, v) == HasPrefix(m.dg, Len(v), v)

\* C6: on the tick that finds an outgoing Done peer more than PingTimeout
\* without a pong, the endpoint sends it RPTCL then RPTL, each once and with
\* its id, and nothing else, and the peer is in None; a tick sends no RPTCL to
\* an outgoing peer that is in None or Begin.
PingTimeoutRelogin ==
    \A a \in DOMAIN Peer, order \in Orders(getPeers(Cur)) :
       (Ticking /\ IsPeer(a) /\ ~PeerAt(Cur, a).Incoming) =>
          /\ (PeerAt(Cur, a).Status = AuthDone /\ PeerAt(Elapse(Cur), a).LastPongReceived > PingTimeout) =>
                /\ PeerAt(Tick(order), a).Status = AuthNone
                /\ SentTo(Tick(order).out, a) =
                      <<Sent(a, Frame(RepeaterClosing, ConfigID)), Sent(a, Frame(RepeaterLogin, ConfigID))>>
          /\ PeerAt(Cur, a).Status \in {AuthNone, AuthBegin} =>
                \A i \in 1..Len(Tick(order).out) :
                   Tick(order).out[i].to = a => ~IsVerb(Tick(order).out[i], RepeaterClosing)

\* The keepalive has just closed the link of a peer that was Done and logged
\* in again.
PingTimeoutReloginWitness ==
    \E a \in DOMAIN Peer :
       /\ IsPeer(a)
       /\ ~PeerAt(Cur, a).Incoming
       /\ PeerAt(Cur, a).Status = AuthNone
       /\ PeerAt(Cur, a).Token # NoToken
       /\ keepaliveRunning
       /\ out = <<Sent(a, Frame(RepeaterClosing, ConfigID)), Sent(a, Frame(RepeaterLogin, ConfigID))>>

(***************************************************************************)
(* The repeater role with a fair ticker: while the keepalive goroutine     *)
(* runs, its timer keeps firing.  The master answers with RPTACK, MSTNAK   *)
(* or MSTPONG when it answers.                                             *)
(***************************************************************************)
FromMasterLogin == {Frame(v, ConfigID) : v \in {RepeaterACK, MasterNAK, MasterPong}}

HandleMasterLogin == DoHandle(FromMasterLogin)

\* The host links peers that stay linked when the master refuses them.
LinkMasterKept == DoLink({p \in LinkedMasters : ~p.UnlinkOnAuthFailure})

NextRetry ==
    \/ LinkMasterKept
    \/ DoListenAndServe
    \/ HandleMasterLogin
    \/ DoKeepalive

SpecRetry == InitRepeater /\ [][NextRetry]_vars /\ WF_vars(DoKeepalive)

\* An outgoing peer is linked and the keepalive goroutine runs.
LinkKept == keepaliveRunning /\ \E a \in DOMAIN Peer : IsPeer(a) /\ ~PeerAt(Cur, a).Incoming

\* The last operation sent a login request.
LoginSent == \E i \in 1..Len(out) : IsVerb(out[i], RepeaterLogin) /\ out[i].dg.id = ConfigID

\* What a tick does to an outgoing peer whose login got no answer: from None
\* or Begin to Failed past AuthTimeout without a packet, from Failed to None
\* with one RPTL past AuthTimeout since the last one; and MSTNAK with the
\* endpoint's id moves a Done peer to Failed.
RetrySteps ==
    /\ \A a \in DOMAIN Peer, order \in Orders(getPeers(Cur)) :
          (Ticking /\ IsPeer(a) /\ ~PeerAt(Cur, a).Incoming) =>
             LET before == PeerAt(Elapse(Cur), a)
                 after == Tick(order)
             IN /\ (before.Status \in {AuthNone, AuthBegin} /\ before.LastPacketReceived > AuthTimeout) =>
                      PeerAt(after, a).Status = AuthFailed
                /\ (before.Status = AuthFailed /\ before.LastAuthSent > AuthTimeout) =>
                      /\ PeerAt(after, a).Status = AuthNone
                      /\ SentTo(after.out, a) = <<Sent(a, Frame(RepeaterLogin, ConfigID))>>
    /\ \A remote \in DOMAIN Peer, data \in FromMaster :
          (ReplyAt(remote, data, AuthDone, {MasterNAK}) /\ checkRepeaterID(data.id)) =>
             PeerAt(Handled(remote, data, RandFail).w, remote).Status = AuthFailed

\* C7: the keepalive moves an outgoing peer whose login gets no answer to
\* Failed and from Failed back to None with a new RPTL, also after MSTNAK at
\* a Done peer; so, with a fair ticker, if from some time on a peer stays
\* linked and the master sends nothing, RPTL is sent again and again.
AuthRetry ==
    /\ []RetrySteps
    /\ \/ []<>~LinkKept
       \/ []<><<HandleMasterLogin>>_vars
       \/ []<>LoginSent

\* The keepalive has just sent a new RPTL to a peer that had got as far as a
\* token and then failed.
AuthRetryWitness ==
    \E a \in DOMAIN Peer :
       /\ IsPeer(a)
       /\ ~PeerAt(Cur, a).Incoming
       /\ PeerAt(Cur, a).Status = AuthNone
       /\ PeerAt(Cur, a).Token # NoToken
       /\ keepaliveRunning
       /\ out = <<Sent(a, Frame(RepeaterLogin, ConfigID))>>

(***************************************************************************)
(* The endpoint as a relay: repeaters at three addresses, subscribed to    *)
(* talk groups.                                                            *)
(***************************************************************************)
RelayAddrs == {"a1", "a2", "a3"}

MaxRelayPeers == 3

\* The id a repeater at an address may have: the one at a2 may share the id
\* of the one at a1.
RelayIds == {<<1, "a1">>, <<1, "a2">>, <<2, "a2">>, <<ConfigID, "a3">>}

\* The peers the host links: Link leaves the status of the object it is given,
\* so the host may link a peer it holds as authenticated already.
LinkedRelayPeers ==
    {[NewPeer(ia[1], ia[2], TRUE, DefaultAuthKey, FALSE, tg, FALSE) EXCEPT !.Status = st] :
        ia \in RelayIds, tg \in TGs, st \in {AuthNone, AuthDone}}

\* The datagrams the repeaters send: group voice to each talk group, private
\* voice.
FromRelayPeers ==
    {Dg(DMRData, DataLen, 1, NoToken, 80, tg) : tg \in TGs}
    \cup {Dg(DMRData, DataLen, 1, NoToken, 16, 1)}

InitRelay == New(RelayAddrs, MaxRelayPeers)

LinkRelayPeer == DoLink(LinkedRelayPeers)

HandleRelayPeer == DoHandle(FromRelayPeers)

NextRelay ==
    \/ LinkRelayPeer
    \/ DoListenAndServe
    \/ HandleRelayPeer

SpecRelay == InitRelay /\ [][NextRelay]_vars

\* A group voice frame from a registered peer that is Done, for the built-in
\* relay, the socket open.
GroupVoice(remote, data) ==
    /\ Reading(remote, data)
    /\ connOpen
    /\ HasPrefix(data, 4, DMRData)
    /\ parseData(data).err = "nil"
    /\ parseData(data).p.CallType = CallTypeGroup
    /\ IsPeer(remote)
    /\ PeerAt(Cur, remote).Status = AuthDone
    /\ ~PeerAt(Cur, remote).HasPacketReceived
    /\ ~pf

\* C8: the relay of a group voice frame writes the packet once to every
\* registered peer, other than the origin, whose talk group is the packet's
\* destination, and writes nothing to any other peer.
GroupRelay ==
    \A remote \in DOMAIN Peer, data \in FromRelayPeers :
       GroupVoice(remote, data) =>
          \A order \in Ranges(data) :
             LET w == handle(Cur, remote, data, RandFail, "nil", order).w
                 p == parseData(data).p
             IN \A a \in DOMAIN Peer :
                   SentTo(w.out, a) =
                      IF IsPeer(a) /\ a # remote /\ PeerAt(Cur, a).TGID = p.DstID
                      THEN <<Sent(a, buildData(p))>> ELSE <<>>

(***************************************************************************)
(* The DMR frame codec alone: buildData and parseData applied to packets   *)
(* and to frames drawn from bounded sets.                                  *)
(***************************************************************************)
\* A packet's data type is a uint8.
DataTypes == 0..255

\* The data types below the voice bursts: what the frame kind 0b10 carries.
DataSyncTypes == 0..(VoiceBurstA - 1)
VoiceBursts == VoiceBurstA..VoiceBurstF

\* The fields of a packet other than timeslot, call type and data type, with
\* the repeater id of the call: all zero, all ones, and every byte its own.
FrameProfiles ==
    { [seq |-> 0, src |-> 0, dst |-> 0, own |-> Word(0, 0, 0, 0),
       rid |-> Word(0, 0, 0, 0), stream |-> Word(0, 0, 0, 0),
       ber |-> 0, rssi |-> 0, payload |-> [j \in 1..PayloadLen |-> 0]],
      [seq |-> 255, src |-> Word24(255, 255, 255), dst |-> Word24(255, 255, 255),
       own |-> Word(0, 0, 0, 0), rid |-> Word(255, 255, 255, 255),
       stream |-> Word(255, 255, 255, 255),
       ber |-> 255, rssi |-> 255, payload |-> [j \in 1..PayloadLen |-> 255]],
      [seq |-> 4, src |-> Word24(5, 6, 7), dst |-> Word24(8, 9, 10),
       own |-> Word(1, 2, 3, 4), rid |-> Word(11, 12, 13, 14),
       stream |-> Word(16, 17, 18, 19),
       ber |-> 53, rssi |-> 54, payload |-> [j \in 1..PayloadLen |-> 19 + j]] }

FramePackets ==
    { [p |-> FullPacket(f.seq, f.src, f.dst, f.own, ts, ct, f.stream, dt,
                        f.ber, f.rssi, f.payload),
       rid |-> f.rid] :
        f \in FrameProfiles, ts \in 0..1, ct \in 0..1, dt \in DataTypes }

\* Frames off the wire: 55 bytes with any byte 15, and frames of other lengths.
RawFrames ==
    { [i \in 1..DataLen |-> IF i = 16 THEN b15 ELSE IF i <= 4 THEN DMRDataBytes[i] ELSE i - 1] :
        b15 \in 0..255 }
    \cup { [i \in 1..n |-> 0] : n \in {DataLen - 1, DataLen + 1} }

InitFrame ==
    /\ Constructed(RepeaterAddrs, MaxPeers)
    /\ Quiet
    /\ call \in { [fn |-> "packet", p |-> in.p, rid |-> in.rid] : in \in FramePackets }
                \cup { [fn |-> "frame", data |-> d] : d \in RawFrames }

\* buildData(p, repeaterID)
DoBuildData ==
    /\ call.fn = "packet"
    /\ call' = [fn |-> "buildData", p |-> call.p, rid |-> call.rid,
                data |-> buildDataBytes(call.p, call.rid)]
    /\ UNCHANGED <<Peer, PeerID, heap, closed, connOpen, stop, keepaliveRunning,
                   stopCh, listener, pf, out, mutex, rxtx, pc, wire>>

\* parseData of what buildData returned.
DoParseBuilt ==
    /\ call.fn = "buildData"
    /\ call' = [fn |-> "parseBuilt", p |-> call.p, rid |-> call.rid,
                data |-> call.data, res |-> parseDataBytes(call.data)]
    /\ UNCHANGED <<Peer, PeerID, heap, closed, connOpen, stop, keepaliveRunning,
                   stopCh, listener, pf, out, mutex, rxtx, pc, wire>>

\* parseData of a frame off the wire.
DoParseData ==
    /\ call.fn = "frame"
    /\ call' = [fn |-> "parseData", data |-> call.data,
                res |-> parseDataBytes(call.data)]
    /\ UNCHANGED <<Peer, PeerID, heap, closed, connOpen, stop, keepaliveRunning,
                   stopCh, listener, pf, out, mutex, rxtx, pc, wire>>

NextFrame == DoBuildData \/ DoParseBuilt \/ DoParseData

SpecFrame == InitFrame /\ [][NextFrame]_vars

\* A packet the round trip is stated for.
ValidPacket(p) ==
    /\ p.SrcID < 2 ^ 24
    /\ p.DstID < 2 ^ 24
    /\ p.Timeslot \in 0..1
    /\ p.CallType \in 0..1
    /\ p.DataType \in VoiceBursts \cup DataSyncTypes
    /\ Len(p.Data) = PayloadLen

\* C12: buildData always returns 55 bytes, and for a packet with 24-bit ids,
\* 1-bit timeslot and call type, a data type that is a voice burst or a data
\* sync type and 33 payload bytes, parseData of the built frame succeeds and
\* returns the packet, its RepeaterID the one given to buildData.
FrameRoundTrip ==
    /\ call.fn \in {"buildData", "parseBuilt"} => Len(call.data) = DataLen
    /\ (call.fn = "parseBuilt" /\ ValidPacket(call.p)) =>
          /\ call.res.err = "nil"
          /\ call.res.p = [call.p EXCEPT !.RepeaterID = call.rid]

FrameRoundTripWitness ==
    /\ call.fn = "parseBuilt"
    /\ ValidPacket(call.p)
    /\ call.p.DataType = VoiceBurstA
    /\ call.p.StreamID = Word(16, 17, 18, 19)
    /\ call.p.RepeaterID # call.rid
    /\ call.res.p.RepeaterID = call.rid

\* C13: parseData fails on every 55-byte frame whose frame kind is 0b11;
\* buildData sets the frame kind to 0b01 for voice burst A, to 0b00 with the
\* offset from burst A in the low nibble for bursts B..F and to 0b10 for every
\* other data type, with bit 7 the timeslot and bit 6 the call type of the
\* packet; and parseData accepts every frame buildData returns.
FrameKindBits ==
    /\ (call.fn = "parseData" /\ Len(call.data) = DataLen
                              /\ FrameKind(At(call.data, 15)) = 3) =>
          call.res.err # "nil"
    /\ call.fn = "buildData" =>
          LET b15 == At(call.data, 15)
              dt == call.p.DataType
          IN /\ FrameKind(b15) = (IF dt = VoiceBurstA THEN 1
                                  ELSE IF dt \in VoiceBursts THEN 0 ELSE 2)
             /\ (dt \in VoiceBursts \ {VoiceBurstA} => b15 % 16 = dt - VoiceBurstA)
             /\ b15 \div 128 = call.p.Timeslot
             /\ (b15 \div 64) % 2 = call.p.CallType
    /\ call.fn = "parseBuilt" => call.res.err = "nil"

(***************************************************************************)
(* The talker alias header codec.                                          *)
(***************************************************************************)
Format7Bit == 0
FormatISO8Bit == 1
FormatUTF8 == 2
FormatUTF16BE == 3

\* Bytes of a talker alias PDU.
AliasLen == 7

\* (b >> k) & 1
Bit(b, k) == (b \div (2 ^ k)) % 2

\* A byte slice after make([]byte, n).
Zeros(n) == [i \in 1..n |-> 0]

\* Whether s[i] is within range, with Go's index.
InRange(s, i) == i \in 0..(Len(s) - 1)

\* movebit: dst afterwards, or the panic of an index out of range. A set bit
\* is or-ed in; a clear bit ands the destination byte with 0 << dstBit.
movebit(src, srcByte, srcBit, dst, dstByte, dstBit) ==
    IF ~InRange(src, srcByte) \/ ~InRange(dst, dstByte)
    THEN [panic |-> TRUE, dst |-> dst]
    ELSE IF Bit(At(src, srcByte), srcBit) >= 1
    THEN [panic |-> FALSE,
          dst |-> [dst EXCEPT ![dstByte + 1] = Or8(@, 2 ^ dstBit)]]
    ELSE [panic |-> FALSE, dst |-> [dst EXCEPT ![dstByte + 1] = 0]]

\* ParseTalkerAliasHeaderPDU: the loop over the bits i..55 of the input.
RECURSIVE parseBits(_, _, _)
parseBits(data, dst, i) ==
    IF i >= 56 THEN [panic |-> FALSE, dst |-> dst]
    ELSE LET r == movebit(data, i \div 8, 7 - (i % 8), dst, (i - 7) \div 7, 6 - (i % 7))
         IN IF r.panic THEN r ELSE parseBits(data, r.dst, i + 1)

TalkerAliasHeaderPDU(format, length, data) ==
    [DataFormat |-> format, Length |-> length, Data |-> data]

\* ParseTalkerAliasHeaderPDU
ParseTalkerAliasHeaderPDU(data) ==
    IF Len(data) # AliasLen
    THEN [err |-> "len", panic |-> FALSE, h |-> TalkerAliasHeaderPDU(0, 0, <<>>)]
    ELSE LET dataFormat == At(data, 0) \div 64
             length == (At(data, 0) % 64) \div 2
             bits == parseBits(data, Zeros(7), 7)
         IN IF dataFormat = Format7Bit
            THEN [err |-> "nil", panic |-> bits.panic,
                  h |-> TalkerAliasHeaderPDU(dataFormat, length, bits.dst)]
            ELSE [err |-> "nil", panic |-> FALSE,
                  h |-> TalkerAliasHeaderPDU(dataFormat, length, SubSeq(data, 2, 6))]

\* Bytes: the loop over the bits i..55 of the output.
RECURSIVE bytesBits(_, _, _)
bytesBits(data, dst, i) ==
    IF i >= 56 THEN [panic |-> FALSE, dst |-> dst]
    ELSE LET r == movebit(data, (i - 7) \div 7, 6 - (i % 7), dst, (i \div 8) - 1, 7 - (i % 8))
         IN IF r.panic THEN r ELSE bytesBits(data, r.dst, i + 1)

\* (*TalkerAliasHeaderPDU).Bytes: the bytes, or the panic of an index out of
\* range.
Bytes(t) ==
    LET bits == IF t.DataFormat = Format7Bit THEN bytesBits(t.Data, Zeros(6), 7)
                ELSE [panic |-> FALSE, dst |-> t.Data]
        moved == bits.dst
        head == ((t.DataFormat % 4) * 64) + ((t.Length % 32) * 2)
    IN IF bits.panic \/ Len(moved) < 6 THEN [panic |-> TRUE, out |-> <<>>]
       ELSE [panic |-> FALSE,
             out |-> <<head, moved[1], moved[2], moved[3], moved[4], moved[5],
                       moved[6]>>]

\* Inputs of the codec: headers of every format with seven or six bytes of
\* data, and PDUs off the air.
AliasChars == {0, 1, 65, 127}
AliasHeaders ==
    { TalkerAliasHeaderPDU(f, n, <<a, b, a, b, a, b, a>>) :
        f \in {Format7Bit}, n \in {AliasLen}, a \in AliasChars, b \in AliasChars }
    \cup { TalkerAliasHeaderPDU(f, n, d) :
             f \in {FormatISO8Bit, FormatUTF8, FormatUTF16BE}, n \in {5, 6},
             d \in {<<1, 2, 3, 4, 5>>, <<1, 2, 3, 4, 5, 6>>} }
AliasPDUs ==
    { <<b0, x, (x + d) % 256, (x + 2 * d) % 256, (x + 3 * d) % 256,
        (x + 4 * d) % 256, (x + 5 * d) % 256>> :
        b0 \in {0, 1, 14, 15, 63, 78, 142, 206},
        x \in {0, 255, 170, 85, 129}, d \in {0, 1, 37} }
    \cup {Zeros(AliasLen - 1), Zeros(AliasLen + 1)}

InitAlias ==
    /\ Constructed(RepeaterAddrs, MaxPeers)
    /\ Quiet
    /\ call \in { [fn |-> "header", h |-> h] : h \in AliasHeaders }
                \cup { [fn |-> "pdu", data |-> d] : d \in AliasPDUs }

\* header.Bytes()
DoBytes ==
    /\ call.fn = "header"
    /\ call' = [fn |-> "Bytes", h |-> call.h, bytes |-> Bytes(call.h)]
    /\ UNCHANGED <<Peer, PeerID, heap, closed, connOpen, stop, keepaliveRunning,
                   stopCh, listener, pf, out, mutex, rxtx, pc, wire>>

\* ParseTalkerAliasHeaderPDU(header.Bytes()), when Bytes returned.
DoParseBytes ==
    /\ call.fn = "Bytes"
    /\ ~call.bytes.panic
    /\ call' = [fn |-> "ParseBytes", h |-> call.h, bytes |-> call.bytes,
                res |-> ParseTalkerAliasHeaderPDU(call.bytes.out)]
    /\ UNCHANGED <<Peer, PeerID, heap, closed, connOpen, stop, keepaliveRunning,
                   stopCh, listener, pf, out, mutex, rxtx, pc, wire>>

\* ParseTalkerAliasHeaderPDU(data)
DoParseTalkerAliasHeaderPDU ==
    /\ call.fn = "pdu"
    /\ call' = [fn |-> "Parse", data |-> call.data,
                res |-> ParseTalkerAliasHeaderPDU(call.data)]
    /\ UNCHANGED <<Peer, PeerID, heap, closed, connOpen, stop, keepaliveRunning,
                   stopCh, listener, pf, out, mutex, rxtx, pc, wire>>

NextAlias == DoBytes \/ DoParseBytes \/ DoParseTalkerAliasHeaderPDU

SpecAlias == InitAlias /\ [][NextAlias]_vars

\* A header in the 7-bit format with seven characters, bit 7 of each clear.
SevenBitHeader(h) ==
    /\ h.DataFormat = Format7Bit
    /\ Len(h.Data) = 7
    /\ \A k \in 1..7 : h.Data[k] < 128

\* C14: for a header in the 7-bit format with seven characters, Bytes returns
\* 7 bytes and ParseTalkerAliasHeaderPDU of them succeeds with the format, the
\* length and the seven characters of the header.
AliasRoundTrip ==
    /\ (call.fn = "Bytes" /\ SevenBitHeader(call.h)) =>
          /\ ~call.bytes.panic
          /\ Len(call.bytes.out) = AliasLen
    /\ (call.fn = "ParseBytes" /\ SevenBitHeader(call.h)) =>
          /\ call.res.err = "nil"
          /\ ~call.res.panic
          /\ call.res.h = call.h

\* Bit i of the stream: bit 7 - (i mod 8) of byte i div 8.
StreamBit(data, i) == Bit(At(data, i \div 8), 7 - (i % 8))

\* C15: for a PDU of 7 bytes whose top two bits are 00,
\* ParseTalkerAliasHeaderPDU returns seven bytes of data, bit 6 - j of byte k
\* the stream bit 7 + 7k + j and bit 7 of every byte clear.
AliasDecode ==
    (call.fn = "Parse" /\ Len(call.data) = AliasLen /\ At(call.data, 0) < 64) =>
       /\ call.res.err = "nil"
       /\ ~call.res.panic
       /\ Len(call.res.h.Data) = 7
       /\ \A k \in 0..6 :
             /\ Bit(At(call.res.h.Data, k), 7) = 0
             /\ \A j \in 0..6 :
                   Bit(At(call.res.h.Data, k), 6 - j) = StreamBit(call.data, 7 + (7 * k) + j)

(***************************************************************************)
(* The handler and what it drops.                                          *)
(***************************************************************************)
\* C16: a datagram shorter than 8 bytes, from a known or an unknown address,
\* is dropped: no reply, the registry and every peer as they were, and the
\* listener goes on (it reads again, or returns nil after Close).
ShortDatagramInert ==
    \A remote \in DOMAIN Peer, data \in FromRepeaters :
       (Reading(remote, data) /\ data.len < MinLen) =>
          LET r == Handled(remote, data, RandFail)
          IN /\ r.w = Cur
             /\ afterHandle(r.err) = IF closed THEN "nil" ELSE "read"

(***************************************************************************)
(* The endpoint with peers of both roles in every status: Link leaves the  *)
(* status of the object it is given, so the host may link a peer in any.   *)
(***************************************************************************)
\* One remote end, its id 1.
TableAddrs == {"a1"}
TableIds == {<<1, "a1">>}

LinkedTablePeers ==
    {[NewPeer(ia[1], ia[2], inc, DefaultAuthKey, FALSE, DefaultTGID, cb) EXCEPT !.Status = st] :
        ia \in TableIds, inc \in BOOLEAN, cb \in BOOLEAN,
        st \in {AuthNone, AuthBegin, AuthDone, AuthFailed}}

\* A length no verb of the protocol has.
OddLen == 100

\* What the remote ends send: every verb, with the id of either peer or of the
\* endpoint after it, config frames of both lengths, group and private voice.
FromTablePeers ==
    {Dg(RepeaterLogin, MinLen, i, NoToken, 0, 0) : i \in Ids}
    \cup {Dg(RepeaterKey, KeyLen, i, <<DefaultAuthKey, 1>>, 0, 0) : i \in Ids}
    \cup {Dg(RepeaterConfig, l, 1, NoToken, 0, 0) : l \in {ConfigLen, OddLen}}
    \cup {Frame(v, i) : v \in {RepeaterACK, MasterACK, MasterNAK, MasterPong,
                               RepeaterPong, MasterPing, RepeaterPing,
                               RepeaterClosing},
                        i \in {1, ConfigID}}
    \cup {Dg(DMRData, DataLen, 1, NoToken, b15, 1) : b15 \in {80, 16}}

InitTable == New(TableAddrs, MaxPeers)

LinkTablePeer == DoLink(LinkedTablePeers)

HandleTablePeer == DoHandle(FromTablePeers)

NextTable ==
    \/ LinkTablePeer
    \/ DoSetPacketFunc
    \/ DoListenAndServe
    \/ HandleTablePeer

SpecTable == InitTable /\ [][NextTable]_vars

\* The verb and length of the datagram are in the transition table of the
\* peer's role and status.
InTable(p, data) ==
    IF p.Incoming
    THEN CASE p.Status = AuthNone -> HasPrefix(data, 4, RepeaterLogin)
           [] p.Status = AuthBegin -> HasPrefix(data, 4, RepeaterKey)
           [] p.Status = AuthDone ->
                \/ HasPrefix(data, 4, DMRData)
                \/ data.len = PingLen /\ HasPrefix(data, 7, MasterPing)
                \/ data.len = PingLen /\ HasPrefix(data, 7, RepeaterPing)
                \/ data.len = ConfigLen /\ HasPrefix(data, 4, RepeaterConfig)
           [] OTHER -> FALSE
    ELSE CASE p.Status \in {AuthNone, AuthBegin} ->
                \/ HasPrefix(data, 6, MasterACK)
                \/ HasPrefix(data, 6, RepeaterACK)
                \/ HasPrefix(data, 6, MasterNAK)
           [] p.Status = AuthDone ->
                \/ HasPrefix(data, 4, DMRData)
                \/ HasPrefix(data, 6, MasterACK)
                \/ HasPrefix(data, 6, RepeaterACK)
                \/ HasPrefix(data, 6, MasterNAK)
                \/ HasPrefix(data, 7, MasterPong)
                \/ HasPrefix(data, 7, RepeaterPong)
           [] OTHER -> FALSE

\* The listener may read a datagram of at least 8 bytes from a registered
\* peer that its status has no transition for.
Unrecognized(remote, data) ==
    /\ Reading(remote, data)
    /\ IsPeer(remote)
    /\ data.len >= MinLen
    /\ ~InTable(PeerAt(Cur, remote), data)

\* C17: a frame whose verb and length are not in the transition table of the
\* peer's role and status brings no reply, leaves the status and the stored
\* configuration of the peer as they were, and the listener goes on reading.
UnrecognizedDropped ==
    \A remote \in DOMAIN Peer, data \in FromTablePeers :
       Unrecognized(remote, data) =>
          \A rnd \in Rand(data) :
             LET r == Handled(remote, data, rnd)
             IN /\ r.w.out = <<>>
                /\ r.w.Peer[remote] = Peer[remote]
                /\ PeerAt(r.w, remote).Status = PeerAt(Cur, remote).Status
                /\ PeerAt(r.w, remote).HasConfig = PeerAt(Cur, remote).HasConfig
                /\ afterHandle(r.err) = IF closed THEN "nil" ELSE "read"

\* The datagram carries a repeater id that fails the check of the peer's
\* role: an incoming peer's RPTL or RPTK with an id that is not the peer's, an
\* outgoing peer's ACK, NAK or PONG with an id that is not the endpoint's (the
\* ACK a peer in status None receives carries the nonce, not an id).
InvalidRepeaterID(p, data) ==
    IF p.Incoming
    THEN /\ HasPrefix(data, 4, RepeaterLogin) \/ HasPrefix(data, 4, RepeaterKey)
         /\ ~CheckRepeaterID(p, data.id)
    ELSE /\ \/ p.Status # AuthNone /\ HasPrefix(data, 6, MasterACK)
            \/ p.Status # AuthNone /\ HasPrefix(data, 6, RepeaterACK)
            \/ HasPrefix(data, 6, MasterNAK)
            \/ HasPrefix(data, 7, MasterPong)
            \/ HasPrefix(data, 7, RepeaterPong)
         /\ ~checkRepeaterID(data.id)

\* C18: a frame whose repeater id fails the id check brings no reply and
\* leaves the status of the peer as it was, in every status.
InvalidIDDropped ==
    \A remote \in DOMAIN Peer, data \in FromTablePeers :
       (/\ Reading(remote, data)
        /\ IsPeer(remote)
        /\ data.len >= MinLen
        /\ InvalidRepeaterID(PeerAt(Cur, remote), data)) =>
          \A rnd \in Rand(data) :
             LET r == Handled(remote, data, rnd)
             IN /\ r.w.out = <<>>
                /\ r.w.Peer[remote] = Peer[remote]
                /\ PeerAt(r.w, remote).Status = PeerAt(Cur, remote).Status

\* A DMRD frame from a registered peer that is Done, which parses.
DataFromDone(remote, data) ==
    /\ Reading(remote, data)
    /\ HasPrefix(data, 4, DMRData)
    /\ parseData(data).err = "nil"
    /\ IsPeer(remote)
    /\ PeerAt(Cur, remote).Status = AuthDone

\* C20: a group call received from a Done peer makes its destination the talk
\* group of the origin and stamps the subscription, with or without a packet
\* callback installed; a private call leaves the talk group as it was.
Subscription ==
    \A remote \in DOMAIN Peer, data \in FromTablePeers :
       DataFromDone(remote, data) =>
          \A cb \in Callback(remote, data), order \in Ranges(data) :
             LET r == handle(Cur, remote, data, RandFail, cb, order)
                 p == parseData(data).p
             IN IF p.CallType = CallTypeGroup
                THEN /\ PeerAt(r.w, remote).TGID = p.DstID
                     /\ PeerAt(r.w, remote).LastTGSubscribed = Now
                ELSE PeerAt(r.w, remote).TGID = PeerAt(Cur, remote).TGID

(***************************************************************************)
(* The operations step by step: which task holds which mutex at each       *)
(* write.  Send, the relay of handlePacket, Link, Close and the keepalive  *)
(* scan run as tasks; each step is what a task does between two points     *)
(* where another task may run.                                             *)
(***************************************************************************)
\* Writes inside rxtx sections recorded before no new operation starts.
MaxWire == 2

TaskAddrs == {"a1", "a2"}
TaskIds == {<<1, "a1">>, <<2, "a2">>}

\* The peers the host links, each address once, subscribed to talk group 1:
\* an incoming peer that is Done, with or without a callback of its own, and an
\* outgoing peer that is None or Done.
LinkedTaskPeers ==
    {[NewPeer(1, "a1", TRUE, DefaultAuthKey, FALSE, 1, cb) EXCEPT !.Status = AuthDone] :
        cb \in BOOLEAN}
    \cup {[NewPeer(2, "a2", FALSE, DefaultAuthKey, FALSE, 1, FALSE) EXCEPT !.Status = st] :
            st \in {AuthNone, AuthDone}}

\* Incoming peers that are Done, for the relay.
LinkedRxtxPeers ==
    {[NewPeer(ia[1], ia[2], TRUE, DefaultAuthKey, FALSE, 1, FALSE) EXCEPT !.Status = AuthDone] :
        ia \in TaskIds}

\* The frames the listener reads: a group call to talk group 1, a private call.
FromTaskPeers == {Dg(DMRData, DataLen, 1, NoToken, b15, 1) : b15 \in {80, 16}}

\* What a step leaves of the registry and the peers.
CommitWorld(w) ==
    /\ Peer' = w.Peer
    /\ PeerID' = w.PeerID
    /\ heap' = w.heap
    /\ out' = w.out

Goto(t, task) == pc' = [pc EXCEPT ![t] = task]

\* SendTG, one pass of its loop: the write to toPeer, or the skip.
sendTGStep(w, p, peer, toPeer) ==
    IF w.heap[toPeer].ID = w.heap[peer].ID THEN Ret(w, "nil")
    ELSE IF w.heap[toPeer].TGID = p.DstID THEN WriteToPeer(w, buildData(p), toPeer)
    ELSE Ret(w, "nil")

\* Close, one pass of its loop.
closeStep(w, peer) ==
    IF w.heap[peer].Status = AuthDone
    THEN WriteToPeer(w, Frame(RepeaterClosing, ConfigID), peer)
    ELSE Ret(w, "nil")

\* What the task t, in a loop over peers or at the login of Link, does with
\* the peer it visits next.
visit(t) ==
    LET peer == Head(pc[t].todo)
    IN CASE t \in Senders -> WriteToPeer(Cur, buildData(pc[t].arg), peer)
         [] t = "listener" -> sendTGStep(Cur, pc[t].arg.p, pc[t].arg.peer, peer)
         [] t = "host" -> handleAuth(Cur, peer)
         [] t = "closer" -> closeStep(Cur, peer)
         [] OTHER -> Ret(keepalivePeer(Cur, peer), "nil")

Visiting(t) == pc[t].at = "write" /\ pc[t].todo # <<>>

\* The next step of t writes to the socket.
Writing(t) == Visiting(t) /\ visit(t).w.out # <<>>

\* Send as it would be without the rxtx mutex.
SendLockNoMutex(t) ==
    /\ pc[t].at = "idle"
    /\ Len(wire) < MaxWire
    /\ \E p \in Outbound : Goto(t, Task("getPeers", <<>>, <<t, Len(wire)>>, p))
    /\ UNCHANGED <<Peer, PeerID, heap, out, closed, connOpen, stop, keepaliveRunning,
                   stopCh, listener, pf, call, mutex, rxtx, wire>>

\* Send: h.rxtx.Lock()
SendLock(t) ==
    /\ pc[t].at = "idle"
    /\ Len(wire) < MaxWire
    /\ rxtx = "free"
    /\ rxtx' = t
    /\ \E p \in Outbound : Goto(t, Task("getPeers", <<>>, <<t, Len(wire)>>, p))
    /\ UNCHANGED <<Peer, PeerID, heap, out, closed, connOpen, stop, keepaliveRunning,
                   stopCh, listener, pf, call, mutex, wire>>

\* getPeers: the snapshot of the registry, under the registry mutex.
GetPeers(t) ==
    /\ pc[t].at = "getPeers"
    /\ mutex = "free"
    /\ \E order \in Orders(getPeers(Cur)) :
          Goto(t, [pc[t] EXCEPT !.at = "write", !.todo = order])
    /\ UNCHANGED <<Peer, PeerID, heap, out, closed, connOpen, stop, keepaliveRunning,
                   stopCh, listener, pf, call, mutex, rxtx, wire>>

\* A write inside an rxtx section, as the peers see it.
Wrote(t, r) ==
    IF r.w.out # <<>>
    THEN Append(wire, [op |-> pc[t].op, by |-> t, to |-> r.w.out[1].to])
    ELSE wire

\* Send: one write of the loop; a failed write ends it.
SendWrite(t) ==
    /\ t \in Senders
    /\ Visiting(t)
    /\ LET r == visit(t)
       IN /\ CommitWorld(r.w)
          /\ wire' = Wrote(t, r)
          /\ Goto(t, [pc[t] EXCEPT !.todo = IF r.err # "nil" THEN <<>> ELSE Tail(@)])
    /\ UNCHANGED <<closed, connOpen, stop, keepaliveRunning, stopCh, listener, pf,
                   call, mutex, rxtx>>

\* Send returns: the deferred h.rxtx.Unlock()
SendUnlock(t) ==
    /\ t \in Senders
    /\ pc[t].at = "write"
    /\ pc[t].todo = <<>>
    /\ rxtx' = "free"
    /\ Goto(t, Idle)
    /\ UNCHANGED <<Peer, PeerID, heap, out, closed, connOpen, stop, keepaliveRunning,
                   stopCh, listener, pf, call, mutex, wire>>

\* handle, for a DMRD frame from a Done peer: the lookup under the registry
\* mutex, the stamp, parseData.
HandleData(remote, data) ==
    /\ listener = "read"
    /\ connOpen \/ closed
    /\ pc["listener"].at = "idle"
    /\ Len(wire) < MaxWire
    /\ mutex = "free"
    /\ IsPeer(remote)
    /\ PeerAt(Cur, remote).Status = AuthDone
    /\ parseData(data).err = "nil"
    /\ CommitWorld([Cur EXCEPT !.heap[Peer[remote]].LastPacketReceived = Now])
    /\ Goto("listener", Task("handlePacket", <<>>, <<"listener", Len(wire)>>,
                             [p |-> parseData(data).p, peer |-> Peer[remote], err |-> "nil"]))
    /\ UNCHANGED <<closed, connOpen, stop, keepaliveRunning, stopCh, listener, pf,
                   call, mutex, rxtx, wire>>

\* handlePacket: h.rxtx.Lock(), then up to the callback or to getPeers of
\* SendTG.
PacketLock ==
    /\ pc["listener"].at = "handlePacket"
    /\ rxtx = "free"
    /\ rxtx' = "listener"
    /\ LET peer == pc["listener"].arg.peer
           p == pc["listener"].arg.p
       IN IF heap[peer].HasPacketReceived \/ pf
          THEN /\ Goto("listener", [pc["listener"] EXCEPT !.at = "callback"])
               /\ CommitWorld(Cur)
          ELSE IF p.CallType = CallTypeGroup
          THEN /\ Goto("listener", [pc["listener"] EXCEPT !.at = "getPeers"])
               /\ CommitWorld([Cur EXCEPT !.heap[peer].TGID = p.DstID,
                                          !.heap[peer].LastTGSubscribed = Now])
          ELSE /\ Goto("listener", [pc["listener"] EXCEPT !.at = "write"])
               /\ CommitWorld(Cur)
    /\ UNCHANGED <<closed, connOpen, stop, keepaliveRunning, stopCh, listener, pf,
                   call, mutex, wire>>

\* The packet callback runs and returns.
PacketCallback ==
    /\ pc["listener"].at = "callback"
    /\ \E cb \in {"nil", "callback"} :
          Goto("listener", [pc["listener"] EXCEPT !.at = "write", !.arg.err = cb])
    /\ UNCHANGED <<Peer, PeerID, heap, out, closed, connOpen, stop, keepaliveRunning,
                   stopCh, listener, pf, call, mutex, rxtx, wire>>

\* SendTG: one pass of the loop.
RelayWrite ==
    /\ Visiting("listener")
    /\ LET r == visit("listener")
       IN /\ CommitWorld(r.w)
          /\ wire' = Wrote("listener", r)
          /\ Goto("listener", [pc["listener"] EXCEPT
                                  !.todo = IF r.err # "nil" THEN <<>> ELSE Tail(@),
                                  !.arg.err = r.err])
    /\ UNCHANGED <<closed, connOpen, stop, keepaliveRunning, stopCh, listener, pf,
                   call, mutex, rxtx>>

\* handlePacket returns: the deferred h.rxtx.Unlock(), and ListenAndServe
\* looks at the error.
PacketUnlock ==
    /\ pc["listener"].at = "write"
    /\ pc["listener"].todo = <<>>
    /\ rxtx' = "free"
    /\ listener' = afterHandle(pc["listener"].arg.err)
    /\ Goto("listener", Idle)
    /\ UNCHANGED <<Peer, PeerID, heap, out, closed, connOpen, stop, keepaliveRunning,
                   stopCh, pf, call, mutex, wire>>

\* Link: h.mutex.Lock(), the reset of the stamps and the registration.
LinkLock(p) ==
    /\ pc["host"].at = "idle"
    /\ mutex = "free"
    /\ Peer[p.Addr] = Nil
    /\ FreeHandles(Cur) # {}
    /\ mutex' = "host"
    /\ CommitWorld(Register(Cur, FirstFree(Cur), p))
    /\ Goto("host", Task(IF p.Incoming THEN "unlock" ELSE "write",
                         <<FirstFree(Cur)>>, <<>>, <<>>))
    /\ UNCHANGED <<closed, connOpen, stop, keepaliveRunning, stopCh, listener, pf,
                   call, rxtx, wire>>

\* Link: return h.handleAuth(peer)
LinkAuth ==
    /\ Visiting("host")
    /\ CommitWorld(visit("host").w)
    /\ Goto("host", [pc["host"] EXCEPT !.at = "unlock"])
    /\ UNCHANGED <<closed, connOpen, stop, keepaliveRunning, stopCh, listener, pf,
                   call, mutex, rxtx, wire>>

\* Link returns: the deferred h.mutex.Unlock()
LinkUnlock ==
    /\ pc["host"].at = "unlock"
    /\ mutex' = "free"
    /\ Goto("host", Idle)
    /\ UNCHANGED <<Peer, PeerID, heap, out, closed, connOpen, stop, keepaliveRunning,
                   stopCh, listener, pf, call, rxtx, wire>>

\* Close: h.mutex.Lock(), the test of Active, the range over h.Peer.
CloseLock ==
    /\ pc["closer"].at = "idle"
    /\ mutex = "free"
    /\ mutex' = "closer"
    /\ IF ~Active THEN Goto("closer", Task("unlock", <<>>, <<>>, <<>>))
       ELSE \E order \in Orders(getPeers(Cur)) :
               Goto("closer", Task("write", order, <<>>, <<>>))
    /\ UNCHANGED <<Peer, PeerID, heap, out, closed, connOpen, stop, keepaliveRunning,
                   stopCh, listener, pf, call, rxtx, wire>>

\* Close: one pass of the loop.
CloseWrite ==
    /\ Visiting("closer")
    /\ LET r == visit("closer")
       IN /\ CommitWorld(r.w)
          /\ Goto("closer", [pc["closer"] EXCEPT
                                !.todo = IF r.err # "nil" THEN <<>> ELSE Tail(@)])
    /\ UNCHANGED <<closed, connOpen, stop, keepaliveRunning, stopCh, listener, pf,
                   call, mutex, rxtx, wire>>

\* Close: the stop channel, h.closed, h.conn.Close(), and the deferred
\* h.mutex.Unlock()
CloseFinish ==
    /\ pc["closer"].at = "write"
    /\ pc["closer"].todo = <<>>
    /\ stop' = "nil"
    /\ stopCh' = IF stop # "nil" THEN "closed" ELSE stopCh
    /\ closed' = TRUE
    /\ connOpen' = FALSE
    /\ mutex' = "free"
    /\ Goto("closer", Idle)
    /\ UNCHANGED <<Peer, PeerID, heap, out, keepaliveRunning, listener, pf, call,
                   rxtx, wire>>

\* Close on an endpoint that is not active: the deferred h.mutex.Unlock()
CloseUnlock ==
    /\ pc["closer"].at = "unlock"
    /\ mutex' = "free"
    /\ Goto("closer", Idle)
    /\ UNCHANGED <<Peer, PeerID, heap, out, closed, connOpen, stop, keepaliveRunning,
                   stopCh, listener, pf, call, rxtx, wire>>

\* keepalive: the ticker fires.
KeepaliveTick ==
    /\ keepaliveRunning
    /\ pc["keepalive"].at = "idle"
    /\ Goto("keepalive", Task("getPeers", <<>>, <<>>, <<>>))
    /\ UNCHANGED <<Peer, PeerID, heap, out, closed, connOpen, stop, keepaliveRunning,
                   stopCh, listener, pf, call, mutex, rxtx, wire>>

\* keepalive: one peer of the scan.
KeepaliveVisit ==
    /\ Visiting("keepalive")
    /\ CommitWorld(visit("keepalive").w)
    /\ Goto("keepalive", [pc["keepalive"] EXCEPT !.todo = Tail(@)])
    /\ UNCHANGED <<closed, connOpen, stop, keepaliveRunning, stopCh, listener, pf,
                   call, mutex, rxtx, wire>>

\* keepalive: the scan is over.
KeepaliveWait ==
    /\ pc["keepalive"].at = "write"
    /\ pc["keepalive"].todo = <<>>
    /\ Goto("keepalive", Idle)
    /\ UNCHANGED <<Peer, PeerID, heap, out, closed, connOpen, stop, keepaliveRunning,
                   stopCh, listener, pf, call, mutex, rxtx, wire>>

InitTasks == New(TaskAddrs, MaxPeers)

NextTasks ==
    \/ SendLock("send1")
    \/ \E t \in {"send1", "listener", "keepalive"} : GetPeers(t)
    \/ SendWrite("send1")
    \/ SendUnlock("send1")
    \/ DoListenAndServe
    \/ \E remote \in DOMAIN Peer, data \in FromTaskPeers : HandleData(remote, data)
    \/ PacketLock
    \/ PacketCallback
    \/ RelayWrite
    \/ PacketUnlock
    \/ \E p \in LinkedTaskPeers : LinkLock(p)
    \/ LinkAuth
    \/ LinkUnlock
    \/ CloseLock
    \/ CloseWrite
    \/ CloseFinish
    \/ CloseUnlock
    \/ KeepaliveTick
    \/ KeepaliveVisit
    \/ KeepaliveWait

SpecTasks == InitTasks /\ [][NextTasks]_vars

\* Two callers of Send and the relay of the listener, over linked peers, and
\* Close, after which the writes fail.
NextRxtx ==
    \/ \E p \in LinkedRxtxPeers : LinkLock(p)
    \/ LinkUnlock
    \/ DoListenAndServe
    \/ \E t \in Senders : SendLock(t)
    \/ \E t \in Senders \cup {"listener"} : GetPeers(t)
    \/ \E t \in Senders : SendWrite(t)
    \/ \E t \in Senders : SendUnlock(t)
    \/ \E remote \in DOMAIN Peer, data \in FromTaskPeers : HandleData(remote, data)
    \/ PacketLock
    \/ RelayWrite
    \/ PacketUnlock
    \/ CloseLock
    \/ CloseWrite
    \/ CloseFinish
    \/ CloseUnlock

SpecRxtx == InitTasks /\ [][NextRxtx]_vars

\* The task is inside the rxtx section of Send or of handlePacket.
InSection(t) == pc[t].at \in {"getPeers", "callback", "write"}

\* C11: at most one task is inside an rxtx section at a time, and the writes
\* of one Send or of one relay are consecutive among the writes made inside
\* the sections: no write of another Send or relay falls between two of them.
RxtxSerialized ==
    /\ \A t \in Senders \cup {"listener"} : InSection(t) => rxtx = t
    /\ \A t, u \in Senders \cup {"listener"} : (InSection(t) /\ InSection(u)) => t = u
    /\ \A i, j, k \in 1..Len(wire) :
          (i < j /\ j < k /\ wire[i].op = wire[k].op) => wire[j].op = wire[i].op

\* A Send has written to one of two peers and holds rxtx, while the listener
\* has a packet to relay and the other caller of Send has written before.
RxtxSerializedWitness ==
    /\ rxtx = "send1"
    /\ pc["send1"].at = "write"
    /\ Len(pc["send1"].todo) = 1
    /\ Len(wire) = 2
    /\ wire[1].by = "send2"
    /\ wire[2].op = pc["send1"].op
    /\ pc["listener"].at = "handlePacket"

\* C19: no task holds the registry mutex while it writes to the socket or
\* runs a packet callback.
MutexDiscipline ==
    \A t \in Tasks : (Writing(t) \/ pc[t].at = "callback") => mutex # t

(***************************************************************************)
(* Who receives DMR data frames: Send and the built-in relay, in the       *)
(* master role.                                                            *)
(***************************************************************************)
\* The writes of DMRD frames among a sequence of writes.
DataWrites(sent) == SelectSeq(sent, LAMBDA m : HasPrefix(m.dg, 4, DMRData))

\* Every DMRD frame written while the registry goes from Cur to w went to a
\* peer whose status is Done: Send and SendTG leave the status as it is.
DataOnlyToDone(w) ==
    \A i \in 1..Len(DataWrites(w.out)) :
       LET to == DataWrites(w.out)[i].to
       IN w.Peer[to] # Nil /\ PeerAt(w, to).Status = AuthDone

\* C21: every DMRD datagram written by Send or by SendTG goes to a peer whose
\* status is Done when it is written; a peer made from the RPTL of an unknown
\* address gets no DMRD frame before it has answered the key challenge.
DataFramesOnlyToDone ==
    /\ \A p \in Outbound, order \in Orders(getPeers(Cur)) :
          Alive => DataOnlyToDone(Send(Cur, p, order).w)
    /\ \A remote \in DOMAIN Peer, data \in FromRepeaters :
          (Reading(remote, data) /\ HasPrefix(data, 4, DMRData)) =>
             \A order \in Ranges(data) :
                DataOnlyToDone(handle(Cur, remote, data, RandFail, "nil", order).w)

(***************************************************************************)
(* A repeater that logs in again: the endpoint as a master of one address, *)
(* the repeater there sends RPTL (a first login, a retry, or a login after *)
(* a restart) and answers the nonce it is given with the right RPTK.       *)
(***************************************************************************)
ReloginAddrs == {"a1"}

ReloginPeers ==
    {NewPeer(i, a, TRUE, k, FALSE, DefaultTGID, FALSE) : i \in Ids, a \in ReloginAddrs, k \in LinkKeys}

InitRelogin == New(ReloginAddrs, MaxPeers)

LinkReloginPeer == DoLink(ReloginPeers)

\* The last write of the last operation went to a and was the frame dg.
LastWrite(a, dg) == out # <<>> /\ out[Len(out)] = Sent(a, dg)

\* The repeater at a registered address sends RPTL with its id; rand.Read
\* gives the endpoint a nonce.
RepeaterSendsLogin ==
    \E a \in ReloginAddrs, n \in Nonces :
       /\ IsPeer(a)
       /\ HandleStep(a, Dg(RepeaterLogin, MinLen, PeerAt(Cur, a).ID, NoToken, 0, 0), n, "nil", <<>>)

\* The repeater has got RPTACK with a nonce and sends the RPTK made of that
\* nonce and the key of the link.
RepeaterSendsKey ==
    \E a \in ReloginAddrs, n \in Nonces :
       /\ IsPeer(a)
       /\ LastWrite(a, Frame(RepeaterACK, n))
       /\ HandleStep(a, Dg(RepeaterKey, KeyLen, PeerAt(Cur, a).ID,
                           <<PeerAt(Cur, a).AuthKey, n>>, 0, 0), RandFail, "nil", <<>>)

NextRelogin ==
    \/ LinkReloginPeer
    \/ DoListenAndServe
    \/ RepeaterSendsLogin
    \/ RepeaterSendsKey
    \/ DoKeepalive
    \/ DoTimePasses

\* The repeater keeps sending RPTL, and answers a nonce it gets again and
\* again with RPTK; the keepalive timer keeps firing.
SpecRelogin ==
    /\ InitRelogin
    /\ [][NextRelogin]_vars
    /\ WF_vars(RepeaterSendsLogin)
    /\ SF_vars(RepeaterSendsKey)
    /\ WF_vars(DoKeepalive)

\* An incoming peer is registered at a and the listener reads.
Registered(a) == IsPeer(a) /\ PeerAt(Cur, a).Incoming /\ listener = "read"

\* The repeater at a has just got RPTACK with the endpoint's id and its peer
\* is Done.
LoggedIn(a) ==
    /\ IsPeer(a)
    /\ PeerAt(Cur, a).Status = AuthDone
    /\ LastWrite(a, Frame(RepeaterACK, ConfigID))

\* C22: whatever the status of a registered incoming peer, a repeater that
\* sends RPTL and then the right RPTK for the nonce it gets is eventually
\* answered RPTACK with the peer Done.
Relogin == \A a \in ReloginAddrs : Registered(a) ~> LoggedIn(a)

(***************************************************************************)
(* The keepalive goroutine and the listener on the fields of one peer.     *)
(* Neither holds a lock while it reads or writes peer.Status and          *)
(* peer.Last: the keepalive reads the status, reads the stamps of the      *)
(* status' branch, and writes, and the listener may handle a datagram      *)
(* between any two of these.                                               *)
(***************************************************************************)
\* The peers the host links: outgoing, kept when the master refuses them.
LinkedRacePeers == {p \in LinkedMasters : ~p.UnlinkOnAuthFailure}

\* The datagrams the master sends: the replies to RPTL and RPTK, a pong.
FromRaceMaster == {Frame(v, ConfigID) : v \in {RepeaterACK, MasterACK, MasterNAK, MasterPong}}

\* What the keepalive decides for an outgoing peer from the status it read
\* and the peer's stamps.
keepaliveDecide(status, p) ==
    CASE status = AuthFailed -> IF p.LastAuthSent > AuthTimeout THEN "retry" ELSE "none"
      [] status \in {AuthNone, AuthBegin} ->
           IF p.LastPacketReceived > AuthTimeout THEN "failed" ELSE "none"
      [] status = AuthDone ->
           IF p.LastPongReceived > PingTimeout THEN "reconnect"
           ELSE IF p.LastPingSent > PingInterval THEN "ping" ELSE "none"
      [] OTHER -> "none"

\* What the keepalive writes for a decision.
keepaliveApply(w, peer, act) ==
    CASE act = "retry" -> logged(handleAuth([w EXCEPT !.heap[peer].Status = AuthNone], peer))
      [] act = "failed" -> [w EXCEPT !.heap[peer].Status = AuthFailed]
      [] act = "reconnect" ->
           logged(handleAuth(logged(WriteToPeer([w EXCEPT !.heap[peer].Status = AuthNone],
                                                Frame(RepeaterClosing, ConfigID), peer)), peer))
      [] act = "ping" ->
           logged(WriteToPeer([w EXCEPT !.heap[peer].LastPingSent = Now],
                              Frame(RepeaterPing, ConfigID), peer))
      [] OTHER -> w

InitRace == New(MasterAddrs, MaxPeers)

\* Link of a peer to an address that has none.
LinkRacePeer == \E p \in LinkedRacePeers : Peer[p.Addr] = Nil /\ LinkStep(p)

HandleRaceMaster == DoHandle(FromRaceMaster)

\* The timer fires a second later: now := time.Now(), and getPeers().
KeepaliveTimer ==
    /\ Alive
    /\ keepaliveRunning
    /\ pc["keepalive"].at = "idle"
    /\ CommitWorld(Elapse(Cur))
    /\ \E order \in Orders(getPeers(Cur)) :
          Goto("keepalive", Task("status", order, <<>>, <<>>))
    /\ UNCHANGED <<closed, connOpen, stop, keepaliveRunning, stopCh, listener, pf,
                   call, mutex, rxtx, wire>>

\* switch peer.Status: the keepalive reads the status of the next peer.
KeepaliveReadStatus ==
    /\ pc["keepalive"].at = "status"
    /\ pc["keepalive"].todo # <<>>
    /\ Goto("keepalive", [pc["keepalive"] EXCEPT
                             !.at = "stamp",
                             !.arg = [status |-> heap[Head(pc["keepalive"].todo)].Status]])
    /\ UNCHANGED <<Peer, PeerID, heap, out, closed, connOpen, stop, keepaliveRunning,
                   stopCh, listener, pf, call, mutex, rxtx, wire>>

\* now.Sub(peer.Last...) > ...: the keepalive reads the stamps of the branch.
KeepaliveReadStamp ==
    /\ pc["keepalive"].at = "stamp"
    /\ LET peer == Head(pc["keepalive"].todo)
           status == pc["keepalive"].arg.status
       IN Goto("keepalive", [pc["keepalive"] EXCEPT
                                !.at = "write",
                                !.arg = [status |-> status,
                                         act |-> keepaliveDecide(status, heap[peer])]])
    /\ UNCHANGED <<Peer, PeerID, heap, out, closed, connOpen, stop, keepaliveRunning,
                   stopCh, listener, pf, call, mutex, rxtx, wire>>

\* The body of the branch: the keepalive writes what it decided.
KeepaliveWrite ==
    /\ pc["keepalive"].at = "write"
    /\ pc["keepalive"].todo # <<>>
    /\ CommitWorld(keepaliveApply(Cur, Head(pc["keepalive"].todo), pc["keepalive"].arg.act))
    /\ Goto("keepalive", Task("status", Tail(pc["keepalive"].todo), <<>>, <<>>))
    /\ UNCHANGED <<closed, connOpen, stop, keepaliveRunning, stopCh, listener, pf,
                   call, mutex, rxtx, wire>>

\* The scan is over: the keepalive waits for the next second.
KeepaliveScanned ==
    /\ pc["keepalive"].at = "status"
    /\ pc["keepalive"].todo = <<>>
    /\ Goto("keepalive", Idle)
    /\ UNCHANGED <<Peer, PeerID, heap, out, closed, connOpen, stop, keepaliveRunning,
                   stopCh, listener, pf, call, mutex, rxtx, wire>>

NextRace ==
    \/ LinkRacePeer
    \/ DoListenAndServe
    \/ HandleRaceMaster
    \/ KeepaliveTimer
    \/ KeepaliveReadStatus
    \/ KeepaliveReadStamp
    \/ KeepaliveWrite
    \/ KeepaliveScanned

SpecRace == InitRace /\ [][NextRace]_vars

\* The decisions of the keepalive that write peer.Status.
StatusWrites == {"retry", "failed", "reconnect"}

\* C23: a status the keepalive is about to write to a peer was decided from
\* the status and the stamps the peer has now: a status the listener wrote in
\* between is not overwritten by a decision taken before it.
StatusUpdatesKept ==
    (pc["keepalive"].at = "write" /\ pc["keepalive"].todo # <<>>) =>
       LET peer == heap[Head(pc["keepalive"].todo)]
           arg == pc["keepalive"].arg
       IN arg.act \in StatusWrites =>
             /\ peer.Status = arg.status
             /\ keepaliveDecide(peer.Status, peer) = arg.act

\* The steps of the keepalive on one peer, taken together, are the branch of
\* the scan in one piece.
KeepaliveStepsAgree ==
    \A h \in getPeers(Cur) :
       ~heap[h].Incoming =>
          keepaliveApply(Cur, h, keepaliveDecide(heap[h].Status, heap[h])) = keepalivePeer(Cur, h)

(***************************************************************************)
(* The two mutexes with a packet callback that sends: the callback set     *)
(* with SetPacketFunc gets the endpoint and may call Send on it.  A task   *)
(* at h.rxtx.Lock() waits until the mutex is free; sync.Mutex hands a      *)
(* free mutex to a waiter, and every task that can take a step takes it.   *)
(***************************************************************************)
Callers == {"send1"}

\* Send is called by the host: the task is at h.rxtx.Lock().
SendCall(t) ==
    /\ pc[t].at = "idle"
    /\ Len(wire) < MaxWire
    /\ \E p \in Outbound : Goto(t, Task("lock", <<>>, <<t, Len(wire)>>, p))
    /\ UNCHANGED <<Peer, PeerID, heap, out, closed, connOpen, stop, keepaliveRunning,
                   stopCh, listener, pf, call, mutex, rxtx, wire>>

\* The endpoint's packet callback calls Send(p) on the endpoint it is given:
\* the listener, inside handlePacket, is at h.rxtx.Lock() of Send.
CallbackSend ==
    /\ pc["listener"].at = "callback"
    /\ pf
    /\ ~heap[pc["listener"].arg.peer].HasPacketReceived
    /\ Goto("listener", [pc["listener"] EXCEPT !.at = "lock"])
    /\ UNCHANGED <<Peer, PeerID, heap, out, closed, connOpen, stop, keepaliveRunning,
                   stopCh, listener, pf, call, mutex, rxtx, wire>>

\* h.rxtx.Lock() of Send returns: the mutex was free.
RxtxLock(t) ==
    /\ pc[t].at = "lock"
    /\ rxtx = "free"
    /\ rxtx' = t
    /\ Goto(t, [pc[t] EXCEPT !.at = "getPeers"])
    /\ UNCHANGED <<Peer, PeerID, heap, out, closed, connOpen, stop, keepaliveRunning,
                   stopCh, listener, pf, call, mutex, wire>>

NextCallback ==
    \/ \E p \in LinkedRxtxPeers : LinkLock(p)
    \/ LinkUnlock
    \/ DoListenAndServe
    \/ DoSetPacketFunc
    \/ \E t \in Callers : SendCall(t)
    \/ \E t \in Callers \cup {"listener"} : RxtxLock(t)
    \/ \E t \in Callers \cup {"listener"} : GetPeers(t)
    \/ \E t \in Callers : SendWrite(t)
    \/ \E t \in Callers : SendUnlock(t)
    \/ \E remote \in DOMAIN Peer, data \in FromTaskPeers : HandleData(remote, data)
    \/ PacketLock
    \/ PacketCallback
    \/ CallbackSend
    \/ RelayWrite
    \/ PacketUnlock

\* Every task goes on when it can, and a mutex that is free again and again
\* is given to each task that waits for it.
FairCallback ==
    /\ WF_vars(LinkUnlock)
    /\ \A t \in Callers \cup {"listener"} : SF_vars(RxtxLock(t)) /\ SF_vars(GetPeers(t))
    /\ \A t \in Callers : WF_vars(SendWrite(t)) /\ WF_vars(SendUnlock(t))
    /\ SF_vars(PacketLock)
    /\ WF_vars(PacketCallback \/ CallbackSend)
    /\ WF_vars(RelayWrite)
    /\ WF_vars(PacketUnlock)

SpecCallback == InitTasks /\ [][NextCallback]_vars /\ FairCallback

\* The task waits for the rxtx mutex, or for the registry mutex.
WaitsRxtx(t) == pc[t].at = "lock" \/ (t = "listener" /\ pc[t].at = "handlePacket")
WaitsMutex(t) == pc[t].at = "getPeers"

\* C24: a task that waits for the rxtx mutex or for the registry mutex gets
\* it, also when the packet callback calls Send, and the listener comes out
\* of handlePacket.
NoMutexDeadlock ==
    /\ \A t \in Callers \cup {"listener"} :
          /\ WaitsRxtx(t) ~> ~WaitsRxtx(t)
          /\ WaitsMutex(t) ~> ~WaitsMutex(t)
    /\ (pc["listener"].at # "idle") ~> (pc["listener"].at = "idle")

(***************************************************************************)
(* The talker alias header off the air and back: Bytes applied to what     *)
(* ParseTalkerAliasHeaderPDU returns.                                      *)
(***************************************************************************)
\* ParseTalkerAliasHeaderPDU(data).Bytes(), when the parse returned a header.
DoBytesParsed ==
    /\ call.fn = "Parse"
    /\ call.res.err = "nil"
    /\ ~call.res.panic
    /\ call' = [fn |-> "BytesParsed", data |-> call.data, res |-> call.res,
                bytes |-> Bytes(call.res.h)]
    /\ UNCHANGED <<Peer, PeerID, heap, closed, connOpen, stop, keepaliveRunning,
                   stopCh, listener, pf, out, mutex, rxtx, pc, wire>>

NextReencode == DoParseTalkerAliasHeaderPDU \/ DoBytesParsed

SpecReencode == InitAlias /\ [][NextReencode]_vars

\* C25: for a PDU of 7 bytes whose top two bits are not 00, Bytes of the
\* parsed header returns 7 bytes: byte 0 of the PDU with its lowest bit
\* clear, then the bytes 1..6 of the PDU.
HeaderReencode ==
    (call.fn = "BytesParsed" /\ At(call.data, 0) \div 64 # Format7Bit) =>
       /\ ~call.bytes.panic
       /\ Len(call.bytes.out) = AliasLen
       /\ At(call.bytes.out, 0) = At(call.data, 0) - (At(call.data, 0) % 2)
       /\ \A k \in 1..(AliasLen - 1) : At(call.bytes.out, k) = At(call.data, k)

====
